---- MODULE Spec2Model ----
(***************************************************************************)
(* A model of the QSDsan process-model constructors (CANDO, CANDO3) and of *)
(* the anaerobic reactor units.  Real numbers are exact rationals <<n, d>> *)
(* with d > 0 and gcd(n, d) = 1; Python's None is the empty tuple.         *)
(***************************************************************************)
EXTENDS Integers, Sequences, FiniteSets, TLC

(***************************************************************************)
(* Exact rational arithmetic, standing for Python's float arithmetic.      *)
(***************************************************************************)
None == <<>>

Abs(n) == IF n < 0 THEN -n ELSE n

RECURSIVE GCD(_, _)
GCD(a, b) == IF b = 0 THEN a ELSE GCD(b, a % b)

\* Op applied to the values of its arguments, each evaluated once.
Eval1(Op(_), x) == CHOOSE r \in {Op(a) : a \in {x}} : TRUE

Eval2(Op(_, _), x, y) == CHOOSE r \in {Op(a, b) : a \in {x}, b \in {y}} : TRUE

RatV(n, d) ==
    LET g == GCD(Abs(n), Abs(d))
        s == IF d < 0 THEN -1 ELSE 1
    IN  << (s * n) \div g, (s * d) \div g >>

Rat(n, d) == Eval2(RatV, n, d)

RInt(n) == << n, 1 >>
RZero == RInt(0)
ROne == RInt(1)
RAddV(x, y) == Rat(x[1] * y[2] + y[1] * x[2], x[2] * y[2])
RAdd(x, y) == Eval2(RAddV, x, y)
RNegV(x) == << -x[1], x[2] >>
RNeg(x) == Eval1(RNegV, x)
RSub(x, y) == RAdd(x, RNeg(y))
RMulV(x, y) ==
    LET g1 == GCD(Abs(x[1]), y[2])
        g2 == GCD(Abs(y[1]), x[2])
    IN  Rat((x[1] \div g1) * (y[1] \div g2), (x[2] \div g2) * (y[2] \div g1))
RMul(x, y) == Eval2(RMulV, x, y)
RDivV(x, y) == Rat(x[1] * y[2], x[2] * y[1])
RDiv(x, y) == Eval2(RDivV, x, y)
RIsZero(x) == x[1] = 0
RPos(x) == x[1] > 0
RLessV(x, y) == x[1] * y[2] < y[1] * x[2]
RLess(x, y) == Eval2(RLessV, x, y)

RECURSIVE RSumSeq(_)
RSumSeq(s) == IF s = <<>> THEN RZero ELSE RAdd(Head(s), RSumSeq(Tail(s)))

\* Python truthiness of an optional number: None and 0 are falsy.
Truthy(x) == x # None /\ ~RIsZero(x)

(***************************************************************************)
(* Anaerobic reactor units: qsdsan AnaerobicBaffledReactor ("qABR"),       *)
(* qsdsan AnaerobicDigestion ("qAD") and the sanitation package's          *)
(* AnaerobicBaffledReactor ("sABR").                                       *)
(***************************************************************************)
UnitKinds == {"qABR", "qAD", "sABR"}

\* Components a waste stream of these units carries.
UComps == {"H2O", "OtherSS", "NH3", "NonNH3", "CH4", "N2O"}
LiquidComps == {"H2O", "OtherSS", "NH3", "NonNH3"}

\* degraded_components=('OtherSS',), the constructors' default.
degraded_components == {"OtherSS"}

\* How many _run calls a behaviour makes.
MaxRuns == 2

VARIABLES ukind, upar, if_capture_biogas, if_N2O_emission, waste, outs,
          COD_deg, urun, nruns, ran

uvars == << ukind, upar, if_capture_biogas, if_N2O_emission, waste, outs,
            COD_deg, urun, nruns, ran >>

\* The ElectroChemCell: its two inlets, its recovery and removal
\* dictionaries, its three outlets and the number of _run calls made.
VARIABLES e_ins, recovery, removal, e_outs, e_nruns

evars == << e_ins, recovery, removal, e_outs, e_nruns >>

\* The state of the other units
\* A construction: the class, the numbers of inlets and outlets it was
\* given, and how it ended.
VARIABLES b_kind, b_ins, b_outs, b_status

bvars == << b_kind, b_ins, b_outs, b_status >>

\* The component registries: the cache files, the registry in hand, how it
\* was got, and the last add or remove made on it.
VARIABLES cache, reg, got, lastop

gvars == << cache, reg, got, lastop >>

\* The SludgeDigester: how its construction ended, the methane_fraction it
\* was given, the attributes __init__ assigned, the methane_fraction it
\* holds, its _t_wall and _t_slab as attribute lookup finds them, whether
\* t_slab was ever assigned, and the last value read from t_slab.
VARIABLES d_status, d_arg, d_attrs, d_methane_fraction, d_t_wall, d_t_slab,
          d_slab_set, d_read

dvars == << d_status, d_arg, d_attrs, d_methane_fraction, d_t_wall, d_t_slab,
            d_slab_set, d_read >>

xvars == << evars, bvars, gvars, dvars >>

\* ---- WasteStream, as the units use it --------------------------------
EmptyMass == [c \in UComps |-> RZero]

\* A stream fresh from the unit's constructor: no flow, no stored COD.
NewStream == [COD_ |-> None, imass |-> EmptyMass, phase |-> "l"]

Emptied_kept(s) == s

\* Stream.empty(): every component flow set to zero.
Emptied(s) == [s EXCEPT !.imass = EmptyMass]

RECURSIVE MassSum(_, _)
MassSum(s, cs) ==
    IF cs = {} THEN RZero
    ELSE LET c == CHOOSE x \in cs : TRUE
         IN  RAdd(s.imass[c], MassSum(s, cs \ {c}))

\* F_vol [m3/hr]: the liquid components' mass [kg/hr] at 1000 kg/m3.
F_vol(s) == RDiv(MassSum(s, LiquidComps), RInt(1000))

\* Nitrogen mass flow [kg N/hr]; NH3 and NonNH3 are measured as N, N2O
\* carries 28/44 of its mass as N.
NMass(s) ==
    RAdd(RAdd(s.imass["NH3"], s.imass["NonNH3"]),
         RMul(s.imass["N2O"], Rat(28, 44)))

\* TN [mg/L]: total nitrogen concentration.
TN(s) == RDiv(RMul(RInt(1000), NMass(s)), F_vol(s))

\* The COD the components carry [mg/L]: the degradable solids at 1 g COD/g.
CompositeCOD(s) ==
    RDiv(RMul(RInt(1000), MassSum(s, degraded_components)), F_vol(s))

\* WasteStream.COD: the stored value if there is one, else the composite.
COD(s) == IF Truthy(s.COD_) THEN s.COD_ ELSE CompositeCOD(s)

\* ---- Decay mixin ------------------------------------------------------
\* allocate_N_removal(tot_red, NH3): NH3 is removed first.
allocate_N_removal(tot_red, NH3) ==
    IF ~RPos(NH3) THEN << RZero, tot_red >>
    ELSE IF RLess(tot_red, NH3) THEN << tot_red, RZero >>
    ELSE << NH3, RSub(tot_red, NH3) >>

\* first_order_decay(k, t, max_decay): the fraction lost, an exponential of
\* the unit's data; it is an input of the model, held in upar.N_loss.
first_order_decay(p) == p.N_loss

\* ---- the units' _run ---------------------------------------------------
ScaleDegraded(s, f) ==
    [s EXCEPT !.imass = [c \in UComps |->
        IF c \in degraded_components THEN RMul(s.imass[c], f)
        ELSE s.imass[c]]]

SetMass(s, c, m) == [s EXCEPT !.imass[c] = m]

Gas(s) == [s EXCEPT !.phase = "g"]

\* N removal, lines 119-124 of qsdsan's AnaerobicBaffledReactor._run.
RemoveN(treated, w, N_loss_tot) ==
    LET rmd == allocate_N_removal(N_loss_tot, w.imass["NH3"])
    IN  SetMass(SetMass(treated, "NH3", RSub(w.imass["NH3"], rmd[1])),
                "NonNH3", RSub(w.imass["NonNH3"], rmd[2]))

N2O_mass(N_loss_tot, f) == RMul(RMul(N_loss_tot, f), Rat(44, 28))

\* qsdsan AnaerobicBaffledReactor._run; the result is
\* [outs, COD_deg, status].
qABR_run(w, o, p, capture, n2o) ==
    LET treated0 == w                              \* treated.copy_like(ins[0])
        biogas0 == Gas(o[2])
        CH4_0 == Gas(o[3])
        N2O_0 == Gas(o[4])
        cod == IF Truthy(w.COD_) THEN w.COD_ ELSE COD(w)  \* waste._COD or waste.COD
        deg == RMul(RDiv(RMul(cod, F_vol(w)), RInt(1000)), p.COD_removal)
        keep == RSub(ROne, p.COD_removal)
    IN  IF treated0.COD_ = None
        THEN \* treated._COD *= (1-COD_removal) raises TypeError on None
             [outs |-> << treated0, biogas0, CH4_0, N2O_0 >>,
              COD_deg |-> deg, status |-> "TypeError"]
        ELSE
        LET treated1 == ScaleDegraded(
                [treated0 EXCEPT !.COD_ = RMul(treated0.COD_, keep)], keep)
            CH4_prcd == RMul(RMul(deg, p.MCF_decay), p.max_CH4_emission)
            biogas1 == IF capture THEN SetMass(biogas0, "CH4", CH4_prcd)
                       ELSE Emptied(biogas0)
            CH4_1 == IF capture THEN Emptied(CH4_0)
                     ELSE SetMass(CH4_0, "CH4", CH4_prcd)
            N_tot == RMul(RDiv(TN(w), RInt(1000)), F_vol(w))
            N_loss_tot == RMul(N_tot, p.N_removal)
            treated2 == RemoveN(treated1, w, N_loss_tot)
            N2O_1 == IF n2o
                     THEN SetMass(N2O_0, "N2O",
                            N2O_mass(N_loss_tot,
                                     RMul(p.N_max_decay, p.N2O_EF_decay)))
                     ELSE Emptied(N2O_0)
        IN  [outs |-> << treated2, biogas1, CH4_1, N2O_1 >>,
             COD_deg |-> deg, status |-> "ok"]

\* qsdsan AnaerobicDigestion._run.
qAD_run(w, o, p, capture, n2o) ==
    LET treated0 == w
        biogas0 == Gas(o[2])
        CH4_0 == Gas(o[3])
        N2O_0 == Gas(o[4])
        cod == IF Truthy(w.COD_) THEN w.COD_ ELSE COD(w)  \* waste._COD or waste.COD
        deg == RMul(RDiv(RMul(cod, F_vol(treated0)), RInt(1000)),
                    p.COD_removal)
        keep == RSub(ROne, p.COD_removal)
    IN  IF treated0.COD_ = None
        THEN [outs |-> << treated0, biogas0, CH4_0, N2O_0 >>,
              COD_deg |-> deg, status |-> "TypeError"]
        ELSE
        LET treated1 == ScaleDegraded(
                [treated0 EXCEPT !.COD_ = RMul(treated0.COD_, keep)], keep)
            CH4_prcd == RMul(RMul(deg, p.MCF_decay), p.max_CH4_emission)
            biogas1 == IF capture THEN SetMass(biogas0, "CH4", CH4_prcd)
                       ELSE Emptied(biogas0)
            CH4_1 == IF capture THEN Emptied(CH4_0)
                     ELSE SetMass(CH4_0, "CH4", CH4_prcd)
            N_loss_tot == RMul(RDiv(RMul(first_order_decay(p), TN(w)),
                                    RInt(1000)), F_vol(w))
            treated2 == IF n2o THEN RemoveN(treated1, w, N_loss_tot)
                        ELSE treated1
            N2O_1 == IF n2o
                     THEN SetMass(N2O_0, "N2O",
                                  N2O_mass(N_loss_tot, p.N2O_EF_decay))
                     ELSE Emptied(N2O_0)
        IN  [outs |-> << treated2, biogas1, CH4_1, N2O_1 >>,
             COD_deg |-> deg, status |-> "ok"]

\* sanitation AnaerobicBaffledReactor._run: outs are treated, CH4, N2O.
sABR_run(w, o, p, n2o) ==
    LET treated0 == w
        CH4_0 == Gas(o[2])
        N2O_0 == Gas(o[3])
    IN  IF w.COD_ = None
        THEN \* waste._COD*waste.F_vol raises TypeError on None
             [outs |-> << treated0, CH4_0, N2O_0 >>,
              COD_deg |-> None, status |-> "TypeError"]
        ELSE
        LET deg == RMul(RDiv(RMul(w.COD_, F_vol(w)), RInt(1000)),
                        p.COD_removal)
            keep == RSub(ROne, p.COD_removal)
            treated1 == ScaleDegraded(
                [treated0 EXCEPT !.COD_ = RMul(treated0.COD_, keep)], keep)
            CH4_prcd == RMul(RMul(deg, p.MCF_decay), p.max_CH4_emission)
            CH4_1 == SetMass(CH4_0, "CH4", CH4_prcd)
            N_loss_tot == RMul(RMul(RDiv(RMul(first_order_decay(p), TN(w)),
                                         RInt(1000)), F_vol(w)), p.N_removal)
            treated2 == IF n2o THEN RemoveN(treated1, w, N_loss_tot)
                        ELSE treated1
            N2O_1 == IF n2o
                     THEN SetMass(N2O_0, "N2O",
                                  N2O_mass(N_loss_tot, p.N2O_EF_decay))
                     ELSE Emptied(N2O_0)
        IN  [outs |-> << treated2, CH4_1, N2O_1 >>,
             COD_deg |-> deg, status |-> "ok"]

\* _run with the N2O branch taken whatever the flag is.
RunResult_emitting ==
    CASE ukind = "qABR" -> qABR_run(waste, outs, upar, if_capture_biogas, TRUE)
      [] ukind = "qAD" -> qAD_run(waste, outs, upar, if_capture_biogas, TRUE)
      [] ukind = "sABR" -> sABR_run(waste, outs, upar, TRUE)

RunResult ==
    CASE ukind = "qABR" ->
            qABR_run(waste, outs, upar, if_capture_biogas, if_N2O_emission)
      [] ukind = "qAD" ->
            qAD_run(waste, outs, upar, if_capture_biogas, if_N2O_emission)
      [] ukind = "sABR" ->
            sABR_run(waste, outs, upar, if_N2O_emission)

\* _N_ins and _N_outs of the unit classes ("Cell" is ElectroChemCell).
N_ins(k) == IF k = "Cell" THEN 2 ELSE 1

N_outs_uniform(k) == 4

N_outs(k) == IF k \in {"sABR", "Cell"} THEN 3 ELSE 4


(***************************************************************************)
(* Process models: the registry of components, reaction templates, the     *)
(* conservation resolver, compile and set_parameters of Processes, and the *)
(* constructors CANDO.__new__, CANDO3.__new__ and Sharon.__new__.          *)
(***************************************************************************)
Classes == {"CANDO", "CANDO3", "Sharon"}

\* Components([...]) of _create_CANDO_cmps, in order.
CANDO_ids ==
    << "S_NO3", "S_NO2", "S_NO", "S_N2O", "S_N2", "S_F", "S_PO4", "X_DPAO",
       "X_PHA", "X_PP", "X_I", "H2O" >>

\* Components([...]) of _create_CANDO3_cmps, in order.
CANDO3_ids ==
    << "S_NO3", "S_NO2", "S_NH4", "S_O2", "S_NO", "S_N2O", "S_N2", "S_F",
       "S_PO4", "S_Ac", "S_ALK", "X_PHA", "X_PP", "X_I", "X_H", "X_PAO",
       "X_S", "H2O" >>

\* Components([...]) of the builder of _Sharon.py, in order.
Sharon_ids ==
    << "S_NH", "S_NO3", "S_NO2", "S_O", "CH3OH", "X_AOB", "X_NOB", "X_HET",
       "H2O" >>

RegistryIds(cls) ==
    CASE cls = "CANDO" -> CANDO_ids
      [] cls = "Sharon" -> Sharon_ids
      [] OTHER -> CANDO3_ids

SeqSet(s) == {s[i] : i \in DOMAIN s}

Quantities == {"COD", "N", "P", "NOD", "charge"}

\* CANDO._params
CANDO_params ==
    {"Y_PO4", "Y_PHA", "Y_DPAO_NOx", "i_P_BM", "i_P_XI", "f_1", "q_PSA",
     "K_S_DPAO", "K_PP_DPAO", "q_PP", "K_PO4_PP", "K_PHA", "K_max_DPAO",
     "K_iPP_DPAO", "K_DPAO_PO4", "mu_DPAO1", "mu_DPAO2", "mu_DPAO3",
     "mu_DPAO4", "K_NO3", "K_NO2", "K_NO2", "K_NO", "K_N2O", "b_DPAO",
     "b_PP", "b_PHA", "K_NOx"}

\* The keywords CANDO.__new__ passes to set_parameters, at the
\* defaults of its signature.
CANDO_kwargs ==
    [Y_PO4 |-> <<3, 10>>, Y_PHA |-> <<1, 5>>, Y_DPAO_NOx |-> <<1, 2>>,
     i_P_BM |-> <<1, 50>>, i_P_XI |-> <<1, 100>>, f_1 |-> <<1, 5>>,
     q_PHA |-> <<53, 100>>, K_S_DPAO |-> <<10, 1>>,
     K_PP_DPAO |-> <<1, 20>>, q_PP |-> <<3, 80>>, K_PO4_PP |-> <<1, 5>>,
     K_PHA |-> <<1, 10>>, K_max_DPAO |-> <<1, 5>>,
     K_iPP_DPAO |-> <<1, 20>>, K_DPAO_PO4 |-> <<1, 20>>,
     mu_DPAO1 |-> <<7, 100>>, mu_DPAO2 |-> <<19, 1000>>,
     mu_DPAO3 |-> <<71, 500>>, mu_DPAO4 |-> <<71, 500>>,
     K_NO3 |-> <<251, 1000>>, K_NO2 |-> <<81, 100>>,
     K_NO |-> <<21, 10000>>, K_N2O |-> <<13, 2500>>, b_DPAO |-> <<1, 200>>,
     b_PP |-> <<1, 200>>, b_PHA |-> <<1, 200>>, K_NOx |-> <<1, 2>>]

\* Sharon._params
Sharon_params ==
    {"Y_PO4", "Y_PHA", "Y_DPAO_NOx", "i_P_BM", "i_P_XI", "f_1", "q_PSA",
     "K_S_DPAO", "K_PP_DPAO", "q_PP", "K_PO4_PP", "K_PHA", "K_max_DPAO",
     "K_iPP_DPAO", "K_DPAO_PO4", "mu_DPAO1", "mu_DPAO2", "mu_DPAO3",
     "mu_DPAO4", "K_NO3", "K_NO2", "K_NO2", "K_NO", "K_N2O", "b_DPAO",
     "b_PP", "b_PHA", "K_NOx"}

\* The keywords Sharon.__new__ passes to set_parameters, at the
\* defaults of its signature.
Sharon_kwargs ==
    [Y_1 |-> <<3, 20>>, Y_2 |-> <<41, 1000>>, Y_3 |-> <<123, 1000>>,
     Y_4 |-> <<131, 1000>>, Y_5 |-> <<223, 1000>>, n_amm |-> <<57, 500>>,
     n_nit |-> <<57, 500>>, n_het |-> <<57, 500>>, h_amm |-> <<73, 1000>>,
     h_nit |-> <<73, 1000>>, h_het |-> <<13, 40>>, o_amm |-> <<13, 40>>,
     o_nit |-> <<13, 40>>, o_het |-> <<13, 40>>,
     mu_amm_max |-> <<21, 10>>, mu_nit_max |-> <<21, 20>>,
     mu_dNO2_max |-> <<3, 2>>, mu_dNO3_max |-> <<3, 2>>,
     mu_met_max |-> <<5, 2>>, K_amm_nh3 |-> <<243, 250>>,
     K_I_amm_HNO2 |-> <<4431, 500>>, K_amm_O2 |-> <<294, 625>>,
     K_nit_HNO2 |-> <<893, 1000>>, K_nit_O2 |-> <<68, 125>>,
     K_dNO2_NO2 |-> <<391, 1000>>, K_hetan_CH3OH |-> <<2084, 125>>,
     K_I_O2 |-> <<63, 625>>, K_dNO3_NO3 |-> <<31, 50>>,
     K_hetox_CH3OH |-> <<8332, 125>>, K_het_O2 |-> <<1, 25>>]

\* CANDO3._params
CANDO3_params ==
    {"k_H", "k_X", "mu_H", "b_H", "nu_H1", "nu_H2", "nu_H3", "nu_H4",
     "k_OH1", "k_OH2", "k_OH3", "k_OH4", "k_OH5", "k_S1", "k_S2", "k_S3",
     "k_S4", "k_S5", "k_HB_NO3", "k_HB_NO2", "k_HB_NO", "k_HB_N2O",
     "k_HB_I1_NO", "k_HB_I2_NO", "k_HB_I3_NO", "Y_PHA", "Y_PAO", "Y_PO4",
     "f_XI", "Y_H", "f_1", "i_NBM", "i_NXS", "i_PBM", "i_NXI", "b_PAO",
     "b_PP", "b_PHA", "k_PP", "q_PHA", "k_A", "k_ALK", "q_PP", "k_PS",
     "k_MAX", "k_P", "k_IPP", "k_O2", "k_NO3", "k_PHA", "n_NO3", "mu_PAO",
     "k_NH4"}

\* The keywords CANDO3.__new__ passes to set_parameters, at the
\* defaults of its signature.
CANDO3_kwargs ==
    [k_H |-> <<1, 8>>, k_X |-> <<1, 1>>, mu_H |-> <<13, 50>>,
     b_H |-> <<17, 1000>>, nu_H1 |-> <<7, 25>>, nu_H2 |-> <<4, 25>>,
     nu_H3 |-> <<7, 20>>, nu_H4 |-> <<7, 20>>, k_OH1 |-> <<1, 10>>,
     k_OH2 |-> <<1, 10>>, k_OH3 |-> <<1, 10>>, k_OH4 |-> <<1, 10>>,
     k_OH5 |-> <<1, 10>>, k_S1 |-> <<20, 1>>, k_S2 |-> <<20, 1>>,
     k_S3 |-> <<20, 1>>, k_S4 |-> <<20, 1>>, k_S5 |-> <<40, 1>>,
     k_HB_NO3 |-> <<1, 5>>, k_HB_NO2 |-> <<1, 5>>, k_HB_NO |-> <<1, 20>>,
     k_HB_N2O |-> <<1, 20>>, k_HB_I1_NO |-> <<1, 2>>,
     k_HB_I2_NO |-> <<3, 10>>, k_HB_I3_NO |-> <<3, 40>>,
     Y_PHA |-> <<5, 8>>, Y_PAO |-> <<1, 5>>, Y_PO4 |-> <<3, 10>>,
     f_XI |-> <<1, 10>>, Y_H |-> <<5, 8>>, b_PAO |-> <<1, 5>>,
     b_PP |-> <<1, 5>>, b_PHA |-> <<1, 5>>, k_PP |-> <<1, 100>>,
     q_PHA |-> <<3, 1>>, k_A |-> <<4, 1>>, k_ALK |-> <<1, 10>>,
     q_PP |-> <<3, 2>>, k_PS |-> <<1, 5>>, k_MAX |-> <<17, 50>>,
     k_P |-> <<1, 100>>, k_IPP |-> <<1, 50>>, k_O2 |-> <<1, 5>>,
     k_NO3 |-> <<1, 2>>, k_PHA |-> <<1, 100>>, n_NO3 |-> <<3, 5>>,
     mu_PAO |-> <<1, 1>>, k_NH4 |-> <<1, 20>>, f_1 |-> <<1, 10>>,
     i_NBM |-> <<7, 100>>, i_NXS |-> <<1, 50>>, i_PBM |-> <<7, 100>>,
     i_NXI |-> <<1, 50>>]


\* ---- conversion factors of the components ----------------------------
\* The factor of component c for conserved quantity q, each quantity in a
\* unit of its own: COD in 1/7 g (an organic g COD is 7, nitrate-N -32,
\* N2-N -12), N and P in g, NOD in 1/7 g O2, charge in 1/14 mol.
BaseFactor(c, q) ==
    CASE q = "COD" ->
            (CASE c \in {"S_F", "S_Ac", "X_PHA", "X_I", "X_H", "X_PAO",
                         "X_DPAO", "X_S", "CH3OH", "X_AOB", "X_NOB",
                         "X_HET"} -> RInt(7)
               [] c \in {"S_O2", "S_O"} -> RInt(-7)
               [] c = "S_NO3" -> RInt(-32)
               [] c = "S_NO2" -> RInt(-24)
               [] c = "S_NO" -> RInt(-20)
               [] c = "S_N2O" -> RInt(-16)
               [] c = "S_N2" -> RInt(-12)
               [] OTHER -> RZero)
      [] q = "N" ->
            (CASE c \in {"S_NO3", "S_NO2", "S_NH4", "S_NH", "S_NO", "S_N2O",
                         "S_N2"} -> ROne
               [] c \in {"X_H", "X_PAO", "X_DPAO", "X_AOB", "X_NOB",
                         "X_HET"} -> Rat(7, 100)
               [] OTHER -> RZero)
      [] q = "P" ->
            (CASE c \in {"S_PO4", "X_PP"} -> ROne
               [] c \in {"X_PAO", "X_DPAO"} -> Rat(1, 50)
               [] OTHER -> RZero)
      [] q = "NOD" ->
            (CASE c \in {"S_NH4", "S_NH"} -> RInt(32)
               [] c \in {"X_H", "X_PAO", "X_DPAO", "X_AOB", "X_NOB",
                         "X_HET"} -> Rat(56, 25)
               [] OTHER -> RZero)
      [] q = "charge" ->
            (CASE c \in {"S_NO3", "S_NO2", "S_PO4", "S_Ac", "S_ALK",
                         "X_PP"} -> RInt(-1)
               [] c \in {"S_NH4", "S_NH"} -> ROne
               [] OTHER -> RZero)

\* The registries a model is built on: the base one, one whose X_PP holds
\* twice the phosphorus, one whose components carry no NOD.
Variants == {"base", "PP2", "noNOD"}

Factor(variant, c, q) ==
    CASE variant = "PP2" /\ c = "X_PP" /\ q = "P" -> RInt(2)
      [] variant = "noNOD" /\ q = "NOD" -> RZero
      [] OTHER -> BaseFactor(c, q)

\* ---- reaction templates ----------------------------------------------
\* A coefficient is k + l*sym, sym the one parameter expression of its row;
\* a literal has l = 0, [param] has k = 0, and [?] is solved.
Num(n) == [kind |-> "num", k |-> RInt(n), l |-> RZero]
Par(n) == [kind |-> "par", k |-> RZero, l |-> RInt(n)]
Unk == [kind |-> "unk", k |-> RZero, l |-> RZero]

\* A term of a rate law is sign * n / d, with d = "1" for a bare symbol;
\* a rate law is a chain of * and / whose operands are sums of terms.
T(n) == [s |-> 1, n |-> n, d |-> "1"]
TR(n, d) == [s |-> 1, n |-> n, d |-> d]
TNeg(n, d) == [s |-> -1, n |-> n, d |-> d]
Times(terms) == [op |-> "*", terms |-> terms]
Over(terms) == [op |-> "/", terms |-> terms]

\* _p12 of CANDO3.__new__:
\* 'S_PO4 + [Y_PHA]X_PHA + [?]S_NO3 -> X_PP + [?]S_N2 + [?]S_NH4 + [?]S_ALK'
p12 ==
    [name |-> "anox_storage_PP",
     sym |-> "Y_PHA",
     comps |-> << "S_PO4", "X_PHA", "S_NO3", "X_PP", "S_N2", "S_NH4",
                  "S_ALK" >>,
     coef |-> << Num(-1), Par(-1), Unk, Num(1), Unk, Unk, Unk >>,
     ref |-> "X_PP",
     rate |-> << Times(<< T("q_PP") >>),
                 Times(<< T("S_O2") >>), Over(<< T("k_O2"), T("S_O2") >>),
                 Times(<< T("S_PO4") >>), Over(<< T("k_PS"), T("S_PO4") >>),
                 Times(<< T("S_ALK") >>), Over(<< T("k_ALK"), T("S_ALK") >>),
                 Times(<< TR("X_PHA", "X_PAO") >>),
                 Over(<< T("k_PHA"), TR("X_PHA", "X_PAO") >>),
                 Times(<< T("k_MAX"), TNeg("X_PP", "X_PAO") >>),
                 Over(<< T("k_IPP"), T("k_MAX"), TNeg("X_PP", "X_PAO") >>),
                 Times(<< T("X_PAO") >>),
                 Times(<< T("n_NO3") >>),
                 Times(<< T("k_O2") >>), Over(<< T("S_O2") >>),
                 Times(<< T("S_NO3") >>), Over(<< T("k_NO3"), T("S_NO3") >>) >>,
     parameters |-> {"Y_PHA", "q_PP", "k_O2", "k_PS", "k_ALK", "k_PHA",
                     "n_NO3", "k_IPP", "k_NO3"},
     conserved_for |-> << "COD", "N", "P", "NOD", "charge" >>,
     reg |-> "cmps"]

\* _p14 of CANDO3.__new__:
\* '[1/Y_PAO]X_PHA + [?]S_NO3 + [?]S_PO4 -> X_PAO + [?]S_N2 + [?]S_NH4 + [?]S_ALK'
p14 ==
    [name |-> "PAO_anox_growth",
     sym |-> "1/Y_PAO",
     comps |-> << "X_PHA", "S_NO3", "S_PO4", "X_PAO", "S_N2", "S_NH4",
                  "S_ALK" >>,
     coef |-> << Par(-1), Unk, Unk, Num(1), Unk, Unk, Unk >>,
     ref |-> "X_PAO",
     rate |-> << Times(<< T("mu_PAO") >>),
                 Times(<< T("S_O2") >>), Over(<< T("k_O2"), T("S_O2") >>),
                 Times(<< T("S_NH4") >>), Over(<< T("k_NH4"), T("S_NH4") >>),
                 Times(<< T("S_PO4") >>), Over(<< T("k_P"), T("S_PO4") >>),
                 Times(<< T("S_ALK") >>), Over(<< T("k_ALK"), T("S_ALK") >>),
                 Times(<< TR("X_PHA", "X_PAO") >>),
                 Over(<< T("k_PHA"), TR("X_PHA", "X_PAO") >>),
                 Times(<< T("X_PAO") >>),
                 Times(<< T("n_NO3") >>),
                 Times(<< T("k_O2") >>), Over(<< T("S_O2") >>),
                 Times(<< T("S_NO3") >>), Over(<< T("k_NO3"), T("S_NO3") >>) >>,
     parameters |-> {"Y_PAO", "mu_PAO", "k_O2", "k_NH4", "k_P", "k_ALK",
                     "k_PHA", "n_NO3", "k_NO3"},
     conserved_for |-> << "COD", "N", "P", "NOD", "charge" >>,
     reg |-> "cmps"]

\* A row of a template file: it declares no conserved quantities of its
\* own (conserved_for = <<>>: the collection's apply) and no own parameters.
FileRow(name, sym, comps, coef, ref, rate) ==
    [name |-> name, sym |-> sym, comps |-> comps, coef |-> coef,
     ref |-> ref, rate |-> rate, parameters |-> {},
     conserved_for |-> <<>>, reg |-> "cmps"]

\* Rows a template file may hold (the .tsv files are data, not code).
\* 'X_S -> S_F'
row_hydrolysis ==
    FileRow("hydrolysis", "", << "X_S", "S_F" >>, << Num(-1), Num(1) >>,
            "X_S", << Times(<< T("k_H") >>), Times(<< T("X_S") >>) >>)

\* '[1/Y_H]S_F + [?]S_O2 + [?]S_NH4 -> X_H + [?]S_ALK'
row_growth ==
    FileRow("het_growth", "1/Y_H", << "S_F", "S_O2", "S_NH4", "X_H", "S_ALK" >>,
            << Par(-1), Unk, Unk, Num(1), Unk >>, "X_H",
            << Times(<< T("mu_H") >>),
               Times(<< T("S_F") >>), Over(<< T("k_S1"), T("S_F") >>),
               Times(<< T("X_H") >>) >>)

\* 'X_S -> [2]S_F': no unknown, and COD does not balance.
row_unbalanced ==
    FileRow("bad_hydrolysis", "", << "X_S", "S_F" >>, << Num(-1), Num(2) >>,
            "X_S", << Times(<< T("k_H") >>), Times(<< T("X_S") >>) >>)

\* '[?]X_S + [?]S_F -> X_I': two unknowns that only COD tells apart.
row_underdetermined ==
    FileRow("decay", "", << "X_S", "S_F", "X_I" >>, << Unk, Unk, Num(1) >>,
            "X_I", << Times(<< T("b_H") >>), Times(<< T("X_I") >>) >>)

\* 'X_PHA -> S_F'
row_release ==
    FileRow("release", "", << "X_PHA", "S_F" >>, << Num(-1), Num(1) >>,
            "X_PHA", << Times(<< T("b_PHA") >>), Times(<< T("X_PHA") >>) >>)

\* '[Y_PHA]X_PHA + [?]S_NO3 + [?]S_PO4 -> X_DPAO + [?]S_N2'
row_dpao ==
    FileRow("DPAO_growth", "Y_PHA",
            << "X_PHA", "S_NO3", "S_PO4", "X_DPAO", "S_N2" >>,
            << Par(-1), Unk, Unk, Num(1), Unk >>, "X_DPAO",
            << Times(<< T("mu_DPAO1") >>),
               Times(<< T("S_NO3") >>), Over(<< T("K_NO3"), T("S_NO3") >>),
               Times(<< T("X_DPAO") >>) >>)

\* 'S_NO2 + [?]S_O -> S_NO3'
row_nitratation ==
    FileRow("nitratation", "", << "S_NO2", "S_O", "S_NO3" >>,
            << Num(-1), Unk, Num(1) >>, "S_NO3",
            << Times(<< T("mu_nit_max") >>),
               Times(<< T("S_O") >>), Over(<< T("K_nit_O2"), T("S_O") >>),
               Times(<< T("X_NOB") >>) >>)

\* 'CH3OH + [?]S_O -> '
row_oxidation ==
    FileRow("methanol_oxidation", "", << "CH3OH", "S_O" >>,
            << Num(-1), Unk >>, "CH3OH",
            << Times(<< T("mu_met_max") >>),
               Times(<< T("CH3OH") >>),
               Over(<< T("K_hetox_CH3OH"), T("CH3OH") >>),
               Times(<< T("X_HET") >>) >>)

\* What the default template file of CANDO3 may hold.
CANDO3_files ==
    { << row_hydrolysis, row_growth >>,
      << row_hydrolysis >>,
      << row_hydrolysis, row_unbalanced >>,
      << row_underdetermined, row_hydrolysis >> }

\* What a file given by the caller through path holds.
CustomFile(cls) ==
    CASE cls = "CANDO" -> << row_release >>
      [] cls = "Sharon" -> << row_oxidation >>
      [] OTHER -> << row_growth >>

CANDO_files == { << row_release, row_dpao >> }

Sharon_files == { << row_nitratation, row_oxidation >> }

\* conserved_for of the load_from_file call.
CollectionConserved(cls) ==
    IF cls \in {"CANDO", "Sharon"} THEN << "COD", "charge", "N" >>
    ELSE << "COD", "charge", "N", "P" >>

\* ---- the conservation resolver ---------------------------------------
Conserved(t, cls) ==
    IF t.conserved_for # <<>> THEN t.conserved_for ELSE CollectionConserved(cls)

\* Positions of the '?' coefficients of a template, in order.
Unknowns(t) == SelectSeq([i \in DOMAIN t.coef |-> i], LAMBDA i : t.coef[i].kind = "unk")

\* -(sum of the known coefficients' contributions to quantity q): its
\* constant part and its part linear in the row's parameter expression.
RECURSIVE KnownSum(_, _, _, _, _)
KnownSum(t, variant, q, part, i) ==
    IF i = 0 THEN RZero
    ELSE LET c == t.coef[i]
             v == IF part = "k" THEN c.k ELSE c.l
         IN RAdd(KnownSum(t, variant, q, part, i - 1),
                 IF c.kind = "unk" THEN RZero
                 ELSE RMul(v, Factor(variant, t.comps[i], q)))

\* One equation per conserved quantity: the unknowns' factors, then the two
\* parts of the right-hand side.
Equation(t, variant, q) ==
    [j \in DOMAIN Unknowns(t) |-> Factor(variant, t.comps[Unknowns(t)[j]], q)]
    \o << RNeg(KnownSum(t, variant, q, "k", Len(t.coef))),
          RNeg(KnownSum(t, variant, q, "l", Len(t.coef))) >>

Equations(t, variant, cons) ==
    [e \in DOMAIN cons |-> Equation(t, variant, cons[e])]

ScaleRow(r, f) == [i \in DOMAIN r |-> RMul(r[i], f)]

SubRow(r, p, f) == [i \in DOMAIN r |-> RSub(r[i], RMul(f, p[i]))]

PivotRow(M, col, row) ==
    IF \E i \in row..Len(M) : ~RIsZero(M[i][col])
    THEN CHOOSE i \in row..Len(M) :
            /\ ~RIsZero(M[i][col])
            /\ \A h \in row..(i - 1) : RIsZero(M[h][col])
    ELSE 0

\* One elimination step on column col with the pivot brought to row.
Eliminate(M, col, row, pv) ==
    LET swapped == [M EXCEPT ![row] = M[pv], ![pv] = M[row]]
        prow == ScaleRow(swapped[row], RDiv(ROne, swapped[row][col]))
    IN [i \in DOMAIN M |->
           IF i = row THEN prow
           ELSE SubRow(swapped[i], prow, swapped[i][col])]

\* Gauss-Jordan elimination over the first n columns, with exact fractions.
RECURSIVE RREF(_, _, _, _)
RREF(M, n, col, row) ==
    IF col > n \/ row > Len(M) THEN [M |-> M, rank |-> row - 1]
    ELSE IF PivotRow(M, col, row) = 0 THEN RREF(M, n, col + 1, row)
    ELSE Eval1(LAMBDA E : RREF(E, n, col + 1, row + 1),
               Eliminate(M, col, row, PivotRow(M, col, row)))

\* A resolver that never looks at the equations left over once the unknowns
\* have their pivots.
Solution_unchecked(R, n, neq) ==
    IF n > neq \/ R.rank < n
    THEN [err |-> "UnderdeterminedStoichiometryError", x |-> <<>>]
    ELSE [err |-> "", x |-> [j \in 1..n |-> << R.M[j][n + 1], R.M[j][n + 2] >>]]

\* A resolver that counts the equations instead of the independent ones.
Solution_counting(R, n, neq) ==
    IF n > neq
    THEN [err |-> "UnderdeterminedStoichiometryError", x |-> <<>>]
    ELSE IF \E i \in (R.rank + 1)..neq :
               ~RIsZero(R.M[i][n + 1]) \/ ~RIsZero(R.M[i][n + 2])
    THEN [err |-> "OverdeterminedStoichiometryError", x |-> <<>>]
    ELSE [err |-> "", x |-> [j \in 1..n |-> << R.M[j][n + 1], R.M[j][n + 2] >>]]

\* The resolver's answer from the reduced system R of n unknowns.
Solution(R, n, neq) ==
    IF n > neq \/ R.rank < n
    THEN [err |-> "UnderdeterminedStoichiometryError", x |-> <<>>]
    ELSE IF \E i \in (n + 1)..neq :
               ~RIsZero(R.M[i][n + 1]) \/ ~RIsZero(R.M[i][n + 2])
    THEN [err |-> "OverdeterminedStoichiometryError", x |-> <<>>]
    ELSE [err |-> "", x |-> [j \in 1..n |-> << R.M[j][n + 1], R.M[j][n + 2] >>]]

\* The resolver: the error it fails with, or the values of the unknowns.
Solve(t, variant, cons) ==
    Eval1(LAMBDA R : Solution(R, Len(Unknowns(t)), Len(cons)),
          Eval1(LAMBDA M : RREF(M, Len(Unknowns(t)), 1, 1),
                Equations(t, variant, cons)))

PosOf(seq, x) == CHOOSE i \in DOMAIN seq : seq[i] = x

\* The coefficients of a template given the solved unknowns, normalized so
\* that the reference component's coefficient has magnitude 1.
Normalized(t, sol) ==
    LET U == Unknowns(t)
        scale == RDiv(ROne, Rat(Abs(t.coef[PosOf(t.comps, t.ref)].k[1]),
                                t.coef[PosOf(t.comps, t.ref)].k[2]))
    IN [i \in DOMAIN t.coef |->
           IF t.coef[i].kind = "unk"
           THEN << RMul(sol.x[PosOf(U, i)][1], scale),
                   RMul(sol.x[PosOf(U, i)][2], scale) >>
           ELSE << RMul(t.coef[i].k, scale), RMul(t.coef[i].l, scale) >>]

Coefficients(t, variant, cons) ==
    Eval1(LAMBDA sol : Normalized(t, sol), Solve(t, variant, cons))

\* The coefficients laid out over the registry's components, in its order.
Columns(t, ids, co) ==
    [j \in DOMAIN ids |->
        IF ids[j] \in SeqSet(t.comps) THEN co[PosOf(t.comps, ids[j])]
        ELSE << RZero, RZero >>]

\* A row of the matrix: one entry per component of the registry.
MatrixRow(t, cls, variant) ==
    [name |-> t.name, sym |-> t.sym,
     stoich |-> Eval1(LAMBDA co : Columns(t, RegistryIds(cls), co),
                      Coefficients(t, variant, Conserved(t, cls)))]

RowError(t, cls, variant) == Solve(t, variant, Conserved(t, cls)).err

\* The error of the first row that cannot be resolved, "" if there is none.
FirstIn(errs) ==
    IF \A i \in DOMAIN errs : errs[i] = "" THEN ""
    ELSE errs[CHOOSE i \in DOMAIN errs :
                 errs[i] # "" /\ \A h \in 1..(i - 1) : errs[h] = ""]

FirstError(ts, cls, variant) ==
    Eval1(FirstIn, [i \in DOMAIN ts |-> RowError(ts[i], cls, variant)])

\* Processes.compile: the matrix of the rows in their order, or nothing
\* when a row cannot be resolved.
CompileMatrix(ts, cls, variant) ==
    IF FirstError(ts, cls, variant) # "" THEN <<>>
    ELSE [i \in DOMAIN ts |-> MatrixRow(ts[i], cls, variant)]

\* parameters=cls._params of the load_from_file call.
ClassParams(cls) ==
    CASE cls = "CANDO" -> CANDO_params
      [] cls = "Sharon" -> Sharon_params
      [] OTHER -> CANDO3_params

\* Every constructor passing the keywords of CANDO.
ClassKwargs_copied(cls) == CANDO_kwargs

\* The keywords of the constructor's set_parameters call.
ClassKwargs(cls) ==
    CASE cls = "CANDO" -> CANDO_kwargs
      [] cls = "Sharon" -> Sharon_kwargs
      [] OTHER -> CANDO3_kwargs

\* The merged parameter table: the names given to load_from_file and those
\* the rows declare, none with a value yet.
MergedParams(ts, cls) ==
    [n \in ClassParams(cls) \cup UNION {ts[i].parameters : i \in DOMAIN ts} |-> None]

\* A setter that stores the names it knows before it fails on the others.
set_parameters_partial(table, kw) ==
    [table |-> [n \in DOMAIN table |->
                   IF n \in DOMAIN kw THEN kw[n] ELSE table[n]],
     err |-> IF DOMAIN kw \subseteq DOMAIN table THEN ""
             ELSE "UnknownParameterError"]

\* Processes.set_parameters(**kw): every name must be in the table, and
\* then every value is stored; else the table stays as it is.
set_parameters(table, kw) ==
    IF DOMAIN kw \subseteq DOMAIN table
    THEN [table |-> [n \in DOMAIN table |->
                        IF n \in DOMAIN kw THEN kw[n] ELSE table[n]],
          err |-> ""]
    ELSE [table |-> table, err |-> "UnknownParameterError"]

\* ---- rate evaluation --------------------------------------------------
\* Components whose concentration the rate laws read.
RateSubstrates ==
    {"S_O2", "S_PO4", "S_ALK", "S_NO3", "S_NH4", "X_PHA", "X_PAO", "X_PP"}

\* The largest concentration tried.
MaxConc == 1

\* The value of a symbol of a rate law: a concentration or a parameter.
SymVal(n, c, table) ==
    IF n \in DOMAIN c THEN RInt(c[n])
    ELSE IF n \in DOMAIN table THEN table[n]
    ELSE None

\* n / d of two values; None when it is undefined.
Quot(nv, dv) ==
    IF nv = None \/ dv = None THEN None
    ELSE IF RIsZero(dv) THEN None
    ELSE RDiv(nv, dv)

\* sign * n / d; None when it is undefined.
TermVal(t, c, table) ==
    Eval1(LAMBDA q : IF q = None THEN None ELSE RMul(RInt(t.s), q),
          Eval2(Quot, SymVal(t.n, c, table),
                IF t.d = "1" THEN ROne ELSE SymVal(t.d, c, table)))

OptAdd(h, r) == IF h = None \/ r = None THEN None ELSE RAdd(h, r)

RECURSIVE SumVal(_, _, _)
SumVal(ts, c, table) ==
    IF ts = <<>> THEN RZero
    ELSE Eval2(OptAdd, TermVal(Head(ts), c, table), SumVal(Tail(ts), c, table))

\* One factor applied to the value so far: acc * v or acc / v.
Apply(op, acc, v) ==
    IF acc = None \/ v = None THEN None
    ELSE IF op = "*" THEN RMul(acc, v)
    ELSE IF RIsZero(v) THEN None
    ELSE RDiv(acc, v)

\* A chain of * and / evaluated from the left, as Python does.
RECURSIVE ChainVal(_, _, _, _)
ChainVal(fs, acc, c, table) ==
    IF fs = <<>> THEN acc
    ELSE Eval1(LAMBDA a : ChainVal(Tail(fs), a, c, table),
               Eval2(LAMBDA x, v : Apply(Head(fs).op, x, v),
                     acc, SumVal(Head(fs).terms, c, table)))

Bare(f) == Len(f.terms) = 1 /\ f.terms[1].s = 1 /\ f.terms[1].d = "1"

Without(seq, i, j) ==
    SelectSeq([h \in DOMAIN seq |-> IF h \in {i, j} THEN <<>> ELSE seq[h]],
              LAMBDA f : f # <<>>)

\* A symbol that is both a factor and a divisor of the chain cancels when
\* the expression is built symbolically.
RECURSIVE Cancel(_)
Cancel(fs) ==
    LET pairs == {ij \in (DOMAIN fs) \X (DOMAIN fs) :
                     /\ fs[ij[1]].op = "*" /\ fs[ij[2]].op = "/"
                     /\ Bare(fs[ij[1]]) /\ Bare(fs[ij[2]])
                     /\ fs[ij[1]].terms[1].n = fs[ij[2]].terms[1].n}
    IN IF pairs = {} THEN fs
       ELSE LET ij == CHOOSE q \in pairs : TRUE
            IN Cancel(Without(fs, ij[1], ij[2]))

\* The rate of one process: a number, or None when the evaluation is
\* undefined (NumericDomainError).  mode tells whether the rate law is
\* evaluated as written or after symbolic cancellation.
RateOf(t, c, table, mode) ==
    ChainVal(IF mode = "symbolic" THEN Cancel(t.rate) ELSE t.rate,
             ROne, c, table)

EvalModes == {"literal", "symbolic"}

\* The concentration vector over the registry: c for the substrates the
\* rate laws switch on, 1 for every other component.
Concentrations(c_, c) ==
    [id \in SeqSet(RegistryIds(c_)) |->
        IF id \in DOMAIN c THEN c[id] ELSE 1]

\* ---- the constructors as a state machine ------------------------------
\* How many models a behaviour builds after the first, and how many
\* set_parameters calls the caller makes on one model.
MaxBuilds == 1
MaxSetCalls == 2

VARIABLES cls, args, file, cmps, pc, path, procs, stoich, params, err,
          built, prev, nbuilds, nset, rates, call

pvars == << cls, args, file, cmps, pc, path, procs, stoich, params, err,
            built, prev, nbuilds, nset, rates, call >>

vars == << uvars, pvars, xvars >>

\* Arguments of a constructor call: path ("" when not given), fr_SS_COD,
\* and Y_PHA (None: the signature's default).
ArgSets ==
    { [path |-> "", fr_SS_COD |-> Rat(3, 4), Y_PHA |-> None],
      [path |-> "", fr_SS_COD |-> Rat(1, 2), Y_PHA |-> None],
      [path |-> "_path", fr_SS_COD |-> Rat(3, 4), Y_PHA |-> Rat(1, 2)],
      [path |-> "custom", fr_SS_COD |-> Rat(3, 4), Y_PHA |-> None],
      [path |-> "custom", fr_SS_COD |-> Rat(1, 2), Y_PHA |-> Rat(1, 2)] }

\* The class, the registry's factors and the default file's rows that a
\* behaviour starts from.
Worlds ==
    { << "CANDO", "base", f >> : f \in CANDO_files }
    \cup { << "CANDO3", "base", f >> : f \in CANDO3_files }
    \cup { << "CANDO3", v, << row_hydrolysis, row_growth >> >> :
              v \in {"PP2", "noNOD"} }
    \cup { << "Sharon", "base", f >> : f \in Sharon_files }

\* The keywords the constructor passes to set_parameters.
CtorKwargs(c, a) ==
    IF a.Y_PHA = None THEN ClassKwargs(c)
    ELSE [n \in DOMAIN ClassKwargs(c) \cup {"Y_PHA"} |->
             IF n = "Y_PHA" THEN a.Y_PHA ELSE ClassKwargs(c)[n]]

\* load_from_file compiling in every class.
CompileOnLoad_always(c) == TRUE

\* compile= of the load_from_file call.
CompileOnLoad(c) == c \in {"CANDO", "Sharon"}

\* _p12 built with components= another registry.
Extended_foreign(ps, pth) ==
    IF pth = "_path" THEN ps \o << [p12 EXCEPT !.reg = "other"], p14 >> ELSE ps

\* The two processes appended in the other order.
Extended_swapped(ps, pth) == IF pth = "_path" THEN ps \o << p14, p12 >> ELSE ps

\* The two processes appended only to the first model built.
Extended_once(ps, pth) ==
    IF pth = "_path" /\ nbuilds = 0 THEN ps \o << p12, p14 >> ELSE ps

\* if path == _path: ... self.extend([_p12, _p14])
Extended(ps, pth) == IF pth = "_path" THEN ps \o << p12, p14 >> ELSE ps

NoModel == [args |-> None, stoich |-> <<>>, params |-> <<>>, err |-> ""]

ProcInit ==
    /\ \E w \in Worlds :
          /\ cls = w[1]
          /\ cmps = [variant |-> w[2], X_I_i_mass |-> Rat(3, 4)]
          /\ file = w[3]
    /\ args \in ArgSets
    /\ pc = "new"
    /\ path = ""
    /\ procs = <<>>
    /\ stoich = <<>>
    /\ params = <<>>
    /\ err = ""
    /\ built = NoModel
    /\ prev = NoModel
    /\ nbuilds = 0
    /\ nset = 0
    /\ rates = <<>>
    /\ call = <<>>

\* No process model is being built.
ProcIdle ==
    /\ cls = "CANDO3"
    /\ cmps = [variant |-> "base", X_I_i_mass |-> Rat(3, 4)]
    /\ file = << row_hydrolysis, row_growth >>
    /\ args = [path |-> "", fr_SS_COD |-> Rat(3, 4), Y_PHA |-> None]
    /\ pc = "idle"
    /\ path = ""
    /\ procs = <<>>
    /\ stoich = <<>>
    /\ params = <<>>
    /\ err = ""
    /\ built = NoModel
    /\ prev = NoModel
    /\ nbuilds = 0
    /\ nset = 0
    /\ rates = <<>>
    /\ call = <<>>

\* if not path: path = _path; cmps.X_I.i_mass = fr_SS_COD;
\* cmps.refresh_constants()   (Sharon.__new__ assigns no i_mass)
Refresh ==
    /\ pc = "new"
    /\ path' = IF args.path = "" THEN "_path" ELSE args.path
    /\ cmps' = IF cls = "Sharon" THEN cmps
               ELSE [cmps EXCEPT !.X_I_i_mass = args.fr_SS_COD]
    /\ pc' = "refreshed"
    /\ UNCHANGED << cls, args, file, procs, stoich, params, err, built, prev,
                    nbuilds, nset, rates, call >>
    /\ UNCHANGED << uvars, xvars >>

\* Some process of the collection was built against a registry other than
\* the collection's own, cmps.
Mismatch(ps) == \E i \in DOMAIN ps : ps[i].reg # "cmps"

\* What compile() leaves: the matrix and the parameter table, or the error.
Compiled(ps) ==
    IF Mismatch(ps)
    THEN [stoich |-> <<>>, params |-> <<>>, err |-> "RegistryMismatchError"]
    ELSE [stoich |-> CompileMatrix(ps, cls, cmps.variant),
          params |-> IF FirstError(ps, cls, cmps.variant) = ""
                     THEN MergedParams(ps, cls) ELSE <<>>,
          err |-> FirstError(ps, cls, cmps.variant)]

DoCompile(ps) ==
    \E r \in {Compiled(ps)} :
       /\ stoich' = r.stoich
       /\ params' = r.params
       /\ err' = r.err
       /\ pc' = IF r.err = "" THEN "compiled" ELSE "failed"
       /\ built' = IF r.err = "" THEN built
                   ELSE [args |-> args, stoich |-> <<>>, params |-> <<>>,
                         err |-> r.err]

\* self = Processes.load_from_file(path, ..., compile=...)
Load ==
    /\ pc = "refreshed"
    /\ procs' = IF path = "_path" THEN file ELSE CustomFile(cls)
    /\ IF CompileOnLoad(cls) THEN DoCompile(procs')
       ELSE /\ pc' = "loaded"
            /\ UNCHANGED << stoich, params, err, built >>
    /\ UNCHANGED << cls, args, file, cmps, path, prev, nbuilds, nset, rates,
                    call >>
    /\ UNCHANGED << uvars, xvars >>

\* The if path == _path block of CANDO3.__new__.
Extend ==
    /\ pc = "loaded"
    /\ procs' = Extended(procs, path)
    /\ pc' = "extended"
    /\ UNCHANGED << cls, args, file, cmps, path, stoich, params, err, built,
                    prev, nbuilds, nset, rates, call >>
    /\ UNCHANGED << uvars, xvars >>

\* self.compile()
Compile ==
    /\ pc = "extended"
    /\ DoCompile(procs)
    /\ UNCHANGED << cls, args, file, cmps, path, procs, prev, nbuilds, nset,
                    rates, call >>
    /\ UNCHANGED << uvars, xvars >>

\* self.set_parameters(...) of the constructor; return self.
SetParams ==
    /\ pc = "compiled"
    /\ call' = CtorKwargs(cls, args)
    /\ \E r \in {set_parameters(params, CtorKwargs(cls, args))} :
          /\ params' = r.table
          /\ err' = r.err
          /\ pc' = IF r.err = "" THEN "done" ELSE "failed"
          /\ built' = [args |-> args,
                       stoich |-> IF r.err = "" THEN stoich ELSE <<>>,
                       params |-> IF r.err = "" THEN r.table ELSE <<>>,
                       err |-> r.err]
    /\ UNCHANGED << cls, args, file, cmps, path, procs, stoich, prev,
                    nbuilds, nset, rates >>
    /\ UNCHANGED << uvars, xvars >>

\* Keywords a caller passes to set_parameters on a built model.
UserKwargs ==
    { [Y_PHA |-> Rat(1, 2)],
      [Y_PAO |-> Rat(1, 4)],
      [Y_PHA |-> Rat(1, 4), bogus |-> ROne],
      [bogus |-> ROne] }

\* The value of a row's parameter expression under a parameter table.
ExprValue(sym, table) ==
    CASE sym = "Y_PHA" -> table["Y_PHA"]
      [] sym = "1/Y_PAO" -> RDiv(ROne, table["Y_PAO"])
      [] sym = "1/Y_H" -> RDiv(ROne, table["Y_H"])
      [] OTHER -> RZero

\* A setter that also writes the new values into the matrix.
UserSet_substituting ==
    /\ pc = "done"
    /\ nset < MaxSetCalls
    /\ \E kw \in UserKwargs :
          LET r == set_parameters(params, kw)
          IN /\ call' = kw
             /\ params' = r.table
             /\ err' = r.err
             /\ stoich' = [i \in DOMAIN stoich |->
                   [stoich[i] EXCEPT !.stoich =
                       [j \in DOMAIN stoich[i].stoich |->
                           << RAdd(stoich[i].stoich[j][1],
                                   RMul(stoich[i].stoich[j][2],
                                        ExprValue(stoich[i].sym, r.table))),
                              RZero >>]]]
    /\ nset' = nset + 1
    /\ UNCHANGED << cls, args, file, cmps, pc, path, procs, built, prev,
                    nbuilds, rates >>
    /\ UNCHANGED << uvars, xvars >>

\* model.set_parameters(**kw), called on the built model.
UserSet ==
    /\ pc = "done"
    /\ nset < MaxSetCalls
    /\ \E kw \in UserKwargs :
          LET r == set_parameters(params, kw)
          IN /\ call' = kw
             /\ params' = r.table
             /\ err' = r.err
    /\ nset' = nset + 1
    /\ UNCHANGED << cls, args, file, cmps, pc, path, procs, stoich, built,
                    prev, nbuilds, rates >>
    /\ UNCHANGED << uvars, xvars >>

\* Another model is constructed on the same registry.
NewModel ==
    /\ pc \in {"done", "failed"}
    /\ nbuilds < MaxBuilds
    /\ args' \in ArgSets
    /\ prev' = built
    /\ pc' = "new"
    /\ path' = ""
    /\ procs' = <<>>
    /\ stoich' = <<>>
    /\ params' = <<>>
    /\ err' = ""
    /\ nbuilds' = nbuilds + 1
    /\ nset' = 0
    /\ rates' = <<>>
    /\ call' = <<>>
    /\ UNCHANGED << cls, file, cmps, built >>
    /\ UNCHANGED << uvars, xvars >>

\* The rates of all rows of the built model at one concentration vector.
Evaluate ==
    /\ pc = "done"
    /\ rates = <<>>
    /\ \E c \in [RateSubstrates -> 0..MaxConc], m \in EvalModes :
          rates' = [conc |-> c, mode |-> m,
                    r |-> [i \in DOMAIN procs |->
                              RateOf(procs[i], Concentrations(cls, c),
                                     params, m)]]
    /\ UNCHANGED << cls, args, file, cmps, pc, path, procs, stoich, params,
                    err, built, prev, nbuilds, nset, call >>
    /\ UNCHANGED << uvars, xvars >>

\* ---- inputs -----------------------------------------------------------
Mass(h2o, ss, nh3, non) ==
    [c \in UComps |->
        CASE c = "H2O" -> RInt(h2o)
          [] c = "OtherSS" -> RInt(ss)
          [] c = "NH3" -> RInt(nh3)
          [] c = "NonNH3" -> RInt(non)
          [] OTHER -> RZero]

\* Inlets: 10 m3/hr with the COD stored (1000 mg/L), stored as 0, or not
\* stored; with more NH3 than is removed, less, and none.
Inlets ==
    { [COD_ |-> c, imass |-> m, phase |-> "l"] :
        c \in {None, RZero, RInt(1000)},
        m \in {Mass(9985, 10, 2, 3), Mass(9980, 10, 10, 0),
               Mass(9986, 10, 0, 4)} }

UnitParams ==
    [COD_removal : {Rat(4, 5), Rat(1, 2)},
     N_removal : {Rat(1, 4), Rat(1, 2)},
     MCF_decay : {Rat(1, 2), ROne},
     max_CH4_emission : {Rat(1, 4)},
     N_max_decay : {Rat(1, 2)},
     N2O_EF_decay : {Rat(1, 10), ROne},
     N_loss : {Rat(1, 4)}]

\* No unit is being run.
UnitIdle ==
    /\ ukind = "qABR"
    /\ upar = [COD_removal |-> Rat(4, 5), N_removal |-> Rat(1, 2),
               MCF_decay |-> ROne, max_CH4_emission |-> Rat(1, 4),
               N_max_decay |-> Rat(1, 2), N2O_EF_decay |-> ROne,
               N_loss |-> Rat(1, 4)]
    /\ if_capture_biogas = FALSE
    /\ if_N2O_emission = FALSE
    /\ waste = NewStream
    /\ outs = <<>>
    /\ COD_deg = None
    /\ urun = "idle"
    /\ nruns = 0
    /\ ran = <<>>

UnitInit ==
    /\ ukind \in UnitKinds
    /\ upar \in UnitParams
    /\ if_capture_biogas \in BOOLEAN
    /\ if_N2O_emission \in BOOLEAN
    /\ waste \in Inlets
    /\ outs = [i \in 1..N_outs(ukind) |-> NewStream]
    /\ COD_deg = None
    /\ urun = "new"
    /\ nruns = 0
    /\ ran = <<>>

\* The flags the last two _run calls were made with, the last one last.
Ran(h, f) == IF Len(h) = 2 THEN << h[2], f >> ELSE Append(h, f)

\* simulate(): one whole _run.
Run ==
    /\ urun # "idle"
    /\ nruns < MaxRuns
    /\ \E r \in {RunResult} :
           /\ outs' = r.outs
           /\ COD_deg' = r.COD_deg
           /\ urun' = r.status
    /\ nruns' = nruns + 1
    /\ ran' = Ran(ran, [capture |-> if_capture_biogas, N2O |-> if_N2O_emission])
    /\ UNCHANGED << ukind, upar, if_capture_biogas, if_N2O_emission, waste >>
    /\ UNCHANGED << pvars, xvars >>

\* The flags are plain attributes, assignable between runs.
SetCapture ==
    /\ ukind # "sABR"
    /\ urun \notin {"new", "idle"}
    /\ if_capture_biogas' = ~if_capture_biogas
    /\ UNCHANGED << ukind, upar, if_N2O_emission, waste, outs, COD_deg,
                    urun, nruns, ran >>
    /\ UNCHANGED << pvars, xvars >>

SetN2O ==
    /\ urun \notin {"new", "idle"}
    /\ if_N2O_emission' = ~if_N2O_emission
    /\ UNCHANGED << ukind, upar, if_capture_biogas, waste, outs, COD_deg,
                    urun, nruns, ran >>
    /\ UNCHANGED << pvars, xvars >>

\* ---- component registries and their cache -------------------------------
path_cmps_shared(c) == "_CANDO_cmps.pckl"

\* _path_cmps of the modules.
path_cmps(c) ==
    CASE c = "CANDO" -> "_CANDO_cmps.pckl"
      [] c = "Sharon" -> "_Sharon_cmps.pckl"
      [] OTHER -> "_CANDO3_cmps.pckl"

CacheFiles == {path_cmps(c) : c \in Classes}

\* Components([...]): an open registry of the ids in the order given.
Components(ids) == [ids |-> ids, compiled |-> FALSE]

\* Components.compile(): ordering and indexing are final.
compile(r) == [r EXCEPT !.compiled = TRUE]

\* The serialized snapshot of a registry, and the registry read back.
dumps(r) == << IF r.compiled THEN "compiled" ELSE "open" >> \o r.ids

loads(b) == [ids |-> Tail(b), compiled |-> Head(b) = "compiled"]

\* The builder of each module: the registry it returns.
create_cmps(c) == compile(Components(RegistryIds(c)))

\* The name under which a module defines its builder, and the name its
\* load_*_cmps calls.
BuilderDefined(c) ==
    CASE c = "CANDO" -> "_create_CANDO_cmps"
      [] c = "Sharon" -> "_create_CANDO_cmps"
      [] OTHER -> "_create_CANDO3_cmps"

BuilderCalled(c) ==
    CASE c = "CANDO" -> "_create_CANDO_cmps"
      [] c = "Sharon" -> "_create_Sharon_cmps"
      [] OTHER -> "_create_CANDO3_cmps"

\* load_*_cmps: load_pickle(_path_cmps) if _pk, else the builder; a missing
\* cache file cannot be read, and a name the module does not define cannot
\* be called.
load_cmps(c, pk, files) ==
    IF pk
    THEN IF files[path_cmps(c)] = <<>>
         THEN [reg |-> Components(<<>>), err |-> "FileNotFoundError"]
         ELSE [reg |-> loads(files[path_cmps(c)]), err |-> ""]
    ELSE IF BuilderCalled(c) # BuilderDefined(c)
         THEN [reg |-> Components(<<>>), err |-> "NameError"]
         ELSE [reg |-> create_cmps(c), err |-> ""]

Without1(ids, c) == SelectSeq(ids, LAMBDA x : x # c)

\* Components.add and Components.remove: refused on a compiled registry.
add_unguarded(r, c) ==
    IF c \in SeqSet(r.ids) THEN [reg |-> r, err |-> "ValueError"]
    ELSE [reg |-> [r EXCEPT !.ids = Append(r.ids, c)], err |-> ""]

add(r, c) ==
    IF r.compiled THEN [reg |-> r, err |-> "ImmutableRegistryError"]
    ELSE IF c \in SeqSet(r.ids) THEN [reg |-> r, err |-> "ValueError"]
    ELSE [reg |-> [r EXCEPT !.ids = Append(r.ids, c)], err |-> ""]

remove(r, c) ==
    IF r.compiled THEN [reg |-> r, err |-> "ImmutableRegistryError"]
    ELSE IF c \notin SeqSet(r.ids) THEN [reg |-> r, err |-> "KeyError"]
    ELSE [reg |-> [r EXCEPT !.ids = Without1(r.ids, c)], err |-> ""]

\* The components a caller adds or removes.
OpIds == {"S_NO3", "X_new"}

NoOp == [op |-> "", id |-> "", err |-> "", before |-> Components(<<>>)]

NotGot == [cls |-> "", how |-> "", err |-> ""]

\* No registry is in hand and no cache file is written.
RegIdle ==
    /\ cache = [f \in CacheFiles |-> <<>>]
    /\ reg = Components(<<>>)
    /\ got = NotGot
    /\ lastop = NoOp

\* The cache files are missing, or hold what the builders wrote with
\* pickle=True.
RegInit ==
    /\ cache \in { [f \in CacheFiles |-> <<>>],
                    [f \in CacheFiles |->
                        dumps(create_cmps(CHOOSE c \in Classes :
                                             path_cmps(c) = f))] }
    /\ reg = Components(<<>>)
    /\ got = NotGot
    /\ lastop = NoOp

\* _create_*_cmps(pickle): build, compile, save if asked, return.
CreateCmps ==
    \E c \in Classes, pickle \in BOOLEAN :
        /\ reg' = create_cmps(c)
        /\ cache' = IF pickle
                     THEN [cache EXCEPT ![path_cmps(c)] = dumps(create_cmps(c))]
                     ELSE cache
        /\ got' = [cls |-> c, how |-> "created", err |-> ""]
        /\ lastop' = NoOp
        /\ UNCHANGED << uvars, pvars, evars, bvars, dvars >>

\* load_*_cmps() with _pk truthy or falsy.
LoadCmps ==
    \E c \in Classes, pk \in BOOLEAN :
        /\ reg' = load_cmps(c, pk, cache).reg
        /\ got' = [cls |-> c, how |-> IF pk THEN "cache" ELSE "fresh",
                   err |-> load_cmps(c, pk, cache).err]
        /\ lastop' = NoOp
        /\ UNCHANGED cache
        /\ UNCHANGED << uvars, pvars, evars, bvars, dvars >>

\* Components([...]) of a class's list, left open by the caller.
OpenCmps ==
    \E c \in Classes :
        /\ reg' = Components(RegistryIds(c))
        /\ got' = [cls |-> c, how |-> "open", err |-> ""]
        /\ lastop' = NoOp
        /\ UNCHANGED cache
        /\ UNCHANGED << uvars, pvars, evars, bvars, dvars >>

\* compile() on the registry in hand.
CompileCmps ==
    /\ got.how = "open"
    /\ ~reg.compiled
    /\ reg' = compile(reg)
    /\ lastop' = NoOp
    /\ UNCHANGED << cache, got >>
    /\ UNCHANGED << uvars, pvars, evars, bvars, dvars >>

Add ==
    /\ got.how # "" /\ got.err = ""
    /\ \E c \in OpIds :
          /\ reg' = add(reg, c).reg
          /\ lastop' = [op |-> "add", id |-> c, err |-> add(reg, c).err,
                        before |-> reg]
    /\ UNCHANGED << cache, got >>
    /\ UNCHANGED << uvars, pvars, evars, bvars, dvars >>

Remove ==
    /\ got.how # "" /\ got.err = ""
    /\ \E c \in OpIds :
          /\ reg' = remove(reg, c).reg
          /\ lastop' = [op |-> "remove", id |-> c, err |-> remove(reg, c).err,
                        before |-> reg]
    /\ UNCHANGED << cache, got >>
    /\ UNCHANGED << uvars, pvars, evars, bvars, dvars >>

\* ---- ElectroChemCell ----------------------------------------------------
\* Components the cell's streams carry.
EComps == {"NH3", "H2O"}

EZero == [c \in EComps |-> RZero]

\* A dictionary component -> ratio; None marks a component that is no key.
Ratios(rs) == [EComps -> {None} \cup rs]

RecoveryDicts == Ratios({Rat(3, 5)})
RemovalDicts == Ratios({Rat(1, 5), Rat(3, 5)})

\* The inlets: the influent and the cleaning agent.
CellInlets ==
    { << [NH3 |-> RInt(2), H2O |-> ROne], [NH3 |-> RZero, H2O |-> ROne] >>,
      << [NH3 |-> ROne, H2O |-> RInt(2)], [NH3 |-> ROne, H2O |-> RZero] >> }

\* mixture.mix_from(self.ins): the component flows added up.
mix_from(ins) == [c \in EComps |-> RAdd(ins[1][c], ins[2][c])]

\* The share of the mixture a dictionary takes of component c.
Taken(mixture, d, c) ==
    IF d[c] = None THEN RZero ELSE RMul(mixture[c], d[c])

\* ElectroChemCell._run: left is the mixture less what the two loops take;
\* recovered and removed are written at the dictionaries' keys only.
Cell_run(ins, o, rec, rem) ==
    LET mixture == mix_from(ins)
    IN  << [c \in EComps |->
               IF rec[c] = None THEN o[1][c] ELSE Taken(mixture, rec, c)],
           [c \in EComps |->
               IF rem[c] = None THEN o[2][c] ELSE Taken(mixture, rem, c)],
           [c \in EComps |->
               RSub(RSub(mixture[c], Taken(mixture, rec, c)),
                    Taken(mixture, rem, c))] >>

\* No cell has been constructed.
CellIdle ==
    /\ e_ins = << EZero, EZero >>
    /\ recovery = [c \in EComps |-> None]
    /\ removal = [c \in EComps |-> None]
    /\ e_outs = <<>>
    /\ e_nruns = 0

\* ElectroChemCell(ins=(influent, cleaner), outs=(recovered, removed, left),
\* recovery=..., removal=...).
CellInit ==
    /\ e_ins \in CellInlets
    /\ recovery \in RecoveryDicts
    /\ removal \in RemovalDicts
    /\ e_outs = << EZero, EZero, EZero >>
    /\ e_nruns = 0

\* simulate(): one whole _run of the cell.
CellRun ==
    /\ e_outs # <<>>
    /\ e_nruns < MaxRuns
    /\ e_outs' = Cell_run(e_ins, e_outs, recovery, removal)
    /\ e_nruns' = e_nruns + 1
    /\ UNCHANGED << e_ins, recovery, removal >>
    /\ UNCHANGED << uvars, pvars, bvars, gvars, dvars >>

\* recovery and removal are plain attributes, assignable between runs.
SetRecovery ==
    /\ e_nruns > 0
    /\ \E d \in RecoveryDicts : d # recovery /\ recovery' = d
    /\ UNCHANGED << e_ins, removal, e_outs, e_nruns >>
    /\ UNCHANGED << uvars, pvars, bvars, gvars, dvars >>

SetRemoval ==
    /\ e_nruns > 0
    /\ \E d \in RemovalDicts : d # removal /\ removal' = d
    /\ UNCHANGED << e_ins, recovery, e_outs, e_nruns >>
    /\ UNCHANGED << uvars, pvars, bvars, gvars, dvars >>

\* ---- SludgeDigester --------------------------------------------------------
\* Names the class body defines: class attributes and properties.
DigesterClassAttrs ==
    {"_T_air", "_T_earth", "_freeboard", "_t_wall", "_t_slab", "_PBL", "_PBW",
     "_PBD", "_excav_slope", "_constr_access", "auxiliary_unit_names",
     "_units", "T_air", "T_earth", "freeboard", "t_wall", "t_slab", "PBL",
     "PBW", "PBD", "excav_slope", "constr_access"}

Set(n) == [op |-> "set", name |-> n]
Get(n) == [op |-> "get", name |-> n]

\* The statements of SludgeDigester.__init__ after SanUnit.__init__, in
\* order: each assigns an attribute, but the one on methane_fraction, which
\* only reads it.
Digester_init ==
    << Set("HRT"), Set("SRT"), Set("T"), Set("Y"), Set("b"),
       Set("organics_conversion"), Set("COD_factor"), Set("methane_yield"),
       Get("methane_fraction"), Set("depth"), Set("heat_transfer_coeff"),
       Set("heat_exchanger"), Set("heat_utilities"),
       Set("wall_concrete_unit_cost"), Set("slab_concrete_unit_cost"),
       Set("excavation_unit_cost") >>

\* Running statements on an object: reading a name that is neither an
\* attribute of the object nor of its class raises AttributeError and ends
\* the run.
RECURSIVE Exec(_, _)
Exec(stmts, attrs) ==
    IF stmts = <<>> THEN [attrs |-> attrs, status |-> "ok"]
    ELSE IF Head(stmts).op = "set"
         THEN Exec(Tail(stmts), attrs \cup {Head(stmts).name})
         ELSE IF Head(stmts).name \in attrs \cup DigesterClassAttrs
              THEN Exec(Tail(stmts), attrs)
              ELSE [attrs |-> attrs, status |-> "AttributeError"]

\* The fractions and thicknesses [ft] a caller gives.
Fractions == {Rat(1, 2), Rat(13, 20), Rat(3, 4)}
Thicknesses == {RZero, Rat(1, 2), Rat(2, 3), ROne, RInt(2)}

\* t_slab's getter: self._t_slab or self.t_wall+2/12
t_slab(slab, wall) == IF Truthy(slab) THEN slab ELSE RAdd(wall, Rat(2, 12))

\* A digester not yet constructed: _t_wall = 6/12 and _t_slab = 8/12 are the
\* class's.
DigesterIdle ==
    /\ d_status = "none"
    /\ d_arg = None
    /\ d_attrs = {}
    /\ d_methane_fraction = None
    /\ d_t_wall = Rat(6, 12)
    /\ d_t_slab = Rat(8, 12)
    /\ d_slab_set = FALSE
    /\ d_read = None

\* SludgeDigester(methane_fraction=f)
DigesterConstruct ==
    /\ d_status = "none"
    /\ \E f \in Fractions : d_arg' = f
    /\ d_attrs' = Exec(Digester_init, {}).attrs
    /\ d_status' = Exec(Digester_init, {}).status
    /\ UNCHANGED << d_methane_fraction, d_t_wall, d_t_slab, d_slab_set,
                    d_read >>
    /\ UNCHANGED << uvars, pvars, evars, bvars, gvars >>

\* The thickness properties use _t_wall and _t_slab only, which the class
\* body defines and __init__ never assigns: they act on an instance however
\* its __init__ ended.
\* t_wall's setter: self._t_wall = float(i)
SetTWall ==
    /\ \E i \in Thicknesses \ {RZero} : d_t_wall' = i
    /\ d_read' = None
    /\ UNCHANGED << d_status, d_arg, d_attrs, d_methane_fraction, d_t_slab,
                    d_slab_set >>
    /\ UNCHANGED << uvars, pvars, evars, bvars, gvars >>

\* t_slab's setter: self._t_slab = float(i)
SetTSlab ==
    /\ \E i \in Thicknesses : d_t_slab' = i
    /\ d_slab_set' = TRUE
    /\ d_read' = None
    /\ UNCHANGED << d_status, d_arg, d_attrs, d_methane_fraction, d_t_wall >>
    /\ UNCHANGED << uvars, pvars, evars, bvars, gvars >>

\* Reading t_slab.
ReadTSlab ==
    /\ d_read = None
    /\ d_read' = t_slab(d_t_slab, d_t_wall)
    /\ UNCHANGED << d_status, d_arg, d_attrs, d_methane_fraction, d_t_wall,
                    d_t_slab, d_slab_set >>
    /\ UNCHANGED << uvars, pvars, evars, bvars, gvars >>

\* ---- construction: SanUnit.__init__ ---------------------------------------
\* The most streams a construction is given.
MaxGiven == 5

BuildKinds == UnitKinds \cup {"Cell"}

\* WSIns / WSOuts(unit, size, streams, ..., size_is_fixed, ...): with a fixed
\* size the streams given must be as many as the size.
Ports(size, given) == IF given = size THEN "ok" ELSE "ArityError"

\* _init_ins, then _init_outs: the first failure ends the construction.
SanUnit_init(k, ni, no) ==
    IF Ports(N_ins(k), ni) # "ok" THEN Ports(N_ins(k), ni)
    ELSE Ports(N_outs(k), no)

\* Nothing has been constructed.
BuildIdle ==
    /\ b_kind = "none"
    /\ b_ins = 0
    /\ b_outs = 0
    /\ b_status = "none"

\* A construction of a unit class with ni inlets and no outlets: when
\* SanUnit.__init__ raises, no unit exists and nothing can be run.
Construct ==
    /\ b_status = "none"
    /\ \E k \in BuildKinds, ni \in 1..MaxGiven, no \in 1..MaxGiven :
        /\ b_kind' = k
        /\ b_ins' = ni
        /\ b_outs' = no
        /\ b_status' = SanUnit_init(k, ni, no)
        /\ IF SanUnit_init(k, ni, no) = "ok" /\ k \in UnitKinds
           THEN /\ ukind' = k
                /\ upar' \in UnitParams
                /\ if_capture_biogas' \in BOOLEAN
                /\ if_N2O_emission' \in BOOLEAN
                /\ waste' \in Inlets
                /\ outs' = [i \in 1..no |-> NewStream]
                /\ urun' = "new"
                /\ UNCHANGED << COD_deg, nruns, ran >>
           ELSE UNCHANGED uvars
        /\ IF SanUnit_init(k, ni, no) = "ok" /\ k = "Cell"
           THEN /\ e_ins' \in CellInlets
                /\ recovery' \in RecoveryDicts
                /\ removal' \in RemovalDicts
                /\ e_outs' = [i \in 1..no |-> EZero]
                /\ UNCHANGED e_nruns
           ELSE UNCHANGED evars
    /\ UNCHANGED << pvars, gvars, dvars >>

\* The other units, none of them constructed.
OthersIdle == CellIdle /\ BuildIdle /\ RegIdle /\ DigesterIdle

\* ---- specifications ----------------------------------------------------
\* The units, run and re-run.
UnitNext == Run \/ SetCapture \/ SetN2O

UnitSpecInit == UnitInit /\ ProcIdle /\ OthersIdle

SpecUnit == UnitSpecInit /\ [][UnitNext]_vars

\* Models constructed, their parameters set, and constructed again.
Next == Refresh \/ Load \/ Extend \/ Compile \/ SetParams \/ UserSet \/ NewModel

Init == ProcInit /\ UnitIdle /\ OthersIdle

Spec == Init /\ [][Next]_vars

\* A CANDO3 model constructed and its rates evaluated.
RateNext == Refresh \/ Load \/ Extend \/ Compile \/ SetParams \/ Evaluate

RateInit == Init /\ cls = "CANDO3"

SpecRate == RateInit /\ [][RateNext]_vars

\* An ElectroChemCell, run and re-run with its dictionaries reassigned.
CellNext == CellRun \/ SetRecovery \/ SetRemoval

CellSpecInit ==
    CellInit /\ UnitIdle /\ ProcIdle /\ BuildIdle /\ RegIdle /\ DigesterIdle

SpecCell == CellSpecInit /\ [][CellNext]_vars

\* Registries built, loaded, compiled and operated on.
RegNext == CreateCmps \/ LoadCmps \/ OpenCmps \/ CompileCmps \/ Add \/ Remove

RegSpecInit ==
    RegInit /\ UnitIdle /\ ProcIdle /\ CellIdle /\ BuildIdle /\ DigesterIdle

SpecRegistry == RegSpecInit /\ [][RegNext]_vars

\* A SludgeDigester constructed, its thicknesses assigned and read.
DigesterNext == DigesterConstruct \/ SetTWall \/ SetTSlab \/ ReadTSlab

DigesterInit == UnitIdle /\ ProcIdle /\ OthersIdle

SpecDigester == DigesterInit /\ [][DigesterNext]_vars

\* A unit constructed with some numbers of inlets and outlets, then run.
BuildNext == Construct \/ Run \/ CellRun

BuildInit == UnitIdle /\ ProcIdle /\ OthersIdle

SpecBuild == BuildInit /\ [][BuildNext]_vars

RECURSIVE NMassOuts(_)
NMassOuts(o) == IF o = <<>> THEN RZero ELSE RAdd(NMass(Head(o)), NMassOuts(Tail(o)))

RECURSIVE CH4Outs(_)
CH4Outs(o) ==
    IF o = <<>> THEN RZero ELSE RAdd(Head(o).imass["CH4"], CH4Outs(Tail(o)))

\* COD mass flow [kg/hr] of a stream.
CODMass(s) == RDiv(RMul(COD(s), F_vol(s)), RInt(1000))

\* C9: after _run of qsdsan's AnaerobicBaffledReactor and AnaerobicDigestion,
\* whatever the two flags are, the inlet's nitrogen mass flow equals the
\* nitrogen mass flow summed over the four outlets, and the inlet's COD mass
\* flow equals the COD left in the treated outlet plus the COD of the methane
\* produced (4 kg COD per kg CH4).
C9_MassBalance ==
    (urun = "ok" /\ ukind \in {"qABR", "qAD"}) =>
        /\ NMass(waste) = NMassOuts(outs)
        /\ CODMass(waste) = RAdd(CODMass(outs[1]), RMul(RInt(4), CH4Outs(outs)))

\* C10: after _run of an anaerobic reactor unit the treated outlet's COD is
\* the inlet's COD x (1 - COD_removal) and the degraded COD mass flow is
\* inlet COD x inlet F_vol / 1000 x COD_removal (1000 mg/L at 10 m3/hr with
\* COD_removal 0.8: 200 mg/L left, 8 kg/hr degraded).
C10_TreatedCOD ==
    nruns > 0 =>
        /\ urun = "ok"
        /\ COD(outs[1]) = RMul(COD(waste), RSub(ROne, upar.COD_removal))
        /\ COD_deg = RMul(RDiv(RMul(COD(waste), F_vol(waste)), RInt(1000)),
                          upar.COD_removal)

(***************************************************************************)
(* Properties of the process models.                                       *)
(***************************************************************************)
\* Sum over the registry's components of (part of the coefficient) x (the
\* component's factor for q); part 1 is the constant, part 2 the share of
\* the row's parameter expression.
RECURSIVE RowSum(_, _, _, _, _, _)
RowSum(row, ids, variant, q, part, j) ==
    IF j = 0 THEN RZero
    ELSE RAdd(RowSum(row, ids, variant, q, part, j - 1),
              RMul(row[j][part], Factor(variant, ids[j], q)))

Conserves(row, q) ==
    /\ RIsZero(RowSum(row.stoich, RegistryIds(cls), cmps.variant, q, 1,
                      Len(RegistryIds(cls))))
    /\ RIsZero(RowSum(row.stoich, RegistryIds(cls), cmps.variant, q, 2,
                      Len(RegistryIds(cls))))

HandBuilt == {"anox_storage_PP", "PAO_anox_growth"}

\* C1: in a compiled collection every row's coefficients, weighted by the
\* components' conversion factors, sum to zero for each conserved quantity
\* the row declares (the collection's when it declares none); the two
\* hand-built CANDO3 rows balance COD, N, P, NOD and charge.
C1_Conservation ==
    pc \in {"compiled", "done"} =>
        \A i \in DOMAIN stoich :
            /\ \A q \in SeqSet(Conserved(procs[i], cls)) : Conserves(stoich[i], q)
            /\ stoich[i].name \in HandBuilt =>
                  \A q \in Quantities : Conserves(stoich[i], q)

\* A model whose matrix holds the two hand-built rows with solved, non-zero
\* nitrate coefficients.
C1_Witness ==
    /\ pc = "done"
    /\ cls = "CANDO3"
    /\ Len(stoich) = Len(file) + 2
    /\ \A i \in DOMAIN stoich :
          stoich[i].name \in HandBuilt =>
              stoich[i].stoich[PosOf(CANDO3_ids, "S_NO3")] # << RZero, RZero >>

\* ---- the resolver's cases, told by determinants ------------------------
Minor(M, j) ==
    [i \in 1..(Len(M) - 1) |->
        [c \in 1..(Len(M) - 1) |-> M[i + 1][IF c < j THEN c ELSE c + 1]]]

RECURSIVE Det(_), DetSum(_, _)
Det(M) == IF M = <<>> THEN ROne ELSE DetSum(M, Len(M))

DetSum(M, j) ==
    IF j = 0 THEN RZero
    ELSE IF RIsZero(M[1][j]) THEN DetSum(M, j - 1)
    ELSE RAdd(DetSum(M, j - 1),
              RMul(RMul(RInt(IF j % 2 = 1 THEN 1 ELSE -1), M[1][j]),
                   Eval1(Det, Minor(M, j))))

RECURSIVE Sorted(_)
Sorted(S) ==
    IF S = {} THEN <<>>
    ELSE LET m == CHOOSE x \in S : \A y \in S : x <= y
         IN << m >> \o Sorted(S \ {m})

\* The square matrix of equations R of E and columns C.
Sub(E, R, C) ==
    [i \in 1..Cardinality(R) |->
        [c \in 1..Cardinality(C) |-> E[Sorted(R)[i]][Sorted(C)[c]]]]

Singular(E, R, C) == RIsZero(Eval1(Det, Sub(E, R, C)))

\* n of the equations are independent.
FullRank(E, n) ==
    \E R \in SUBSET DOMAIN E : Cardinality(R) = n /\ ~Singular(E, R, 1..n)

\* No assignment of the n unknowns satisfies every equation: with a right
\* hand side, n + 1 of the equations are independent.
Inconsistent(E, n) ==
    \E R \in SUBSET DOMAIN E, b \in {n + 1, n + 2} :
        Cardinality(R) = n + 1 /\ ~Singular(E, R, (1..n) \cup {b})

Expected(E, n) ==
    IF ~FullRank(E, n) THEN "UnderdeterminedStoichiometryError"
    ELSE IF Inconsistent(E, n) THEN "OverdeterminedStoichiometryError"
    ELSE ""

ExpectedError(t) ==
    Eval1(LAMBDA E : Expected(E, Len(Unknowns(t))),
          Equations(t, cmps.variant, Conserved(t, cls)))

RowsBefore(i) == \A h \in 1..(i - 1) : ExpectedError(procs[h]) = ""

\* C3: when compile has run, it has failed with Underdetermined... exactly
\* if the first row that cannot be resolved has fewer independent equations
\* than '?' coefficients, with Overdetermined... exactly if that row's
\* equations are independent enough but admit no assignment, and no model
\* is left then; otherwise every row took the one solution of its
\* equations.  PAO_anox_growth has 5 '?' and 5 conserved quantities,
\* anox_storage_PP 4 '?' and 5.
C3_Resolver ==
    /\ Len(Unknowns(p14)) = 5 /\ Len(p14.conserved_for) = 5
    /\ Len(Unknowns(p12)) = 4 /\ Len(p12.conserved_for) = 5
    /\ pc = "compiled" \/ (pc = "failed" /\ call = <<>>) =>
          /\ \A i \in DOMAIN procs :
                RowsBefore(i) /\ ExpectedError(procs[i]) # "" =>
                    /\ pc = "failed"
                    /\ err = ExpectedError(procs[i])
                    /\ stoich = <<>>
                    /\ built.stoich = <<>>
          /\ RowsBefore(Len(procs) + 1) =>
                /\ pc = "compiled"
                /\ err = ""
                /\ \A i \in DOMAIN procs :
                      \A q \in SeqSet(Conserved(procs[i], cls)) :
                          Conserves(stoich[i], q)

\* Compilation failed on anox_storage_PP, whose phosphorus cannot balance.
C3_Witness ==
    /\ pc = "failed"
    /\ err = "OverdeterminedStoichiometryError"
    /\ cmps.variant = "PP2"
    /\ procs[Len(procs) - 1].name = "anox_storage_PP"
    /\ ExpectedError(procs[1]) = ""
    /\ stoich = <<>>

\* A step that is a set_parameters call: the constructor's or a caller's.
IsSetStep ==
    \/ nset' = nset + 1
    \/ pc = "compiled" /\ pc' \in {"done", "failed"}

\* C2: a set_parameters call with a name the parameter table does not hold
\* fails with UnknownParameterError and leaves every entry of the table as
\* it was, the entries of the known names passed with it included.
C2_Atomic ==
    [][ (IsSetStep /\ ~(DOMAIN call' \subseteq DOMAIN params)) =>
            /\ err' = "UnknownParameterError"
            /\ params' = params ]_vars

\* The call of CANDO.__new__: q_PHA is not in the table, Y_PO4 is, and
\* Y_PO4 has kept the value it had.
C2_Witness ==
    /\ cls = "CANDO"
    /\ pc = "failed"
    /\ err = "UnknownParameterError"
    /\ "q_PHA" \in DOMAIN call /\ "q_PHA" \notin DOMAIN params
    /\ "Y_PO4" \in DOMAIN call /\ "Y_PO4" \in DOMAIN params
    /\ params["Y_PO4"] = None /\ call["Y_PO4"] # None

\* C4: a CANDO3 built from its default path compiles to the file's rows
\* followed by anox_storage_PP and then PAO_anox_growth; the two rows hold
\* the coefficients their processes carry, and the rows before them are
\* what the file alone compiles to.
C4_Extension ==
    (/\ cls = "CANDO3" /\ path = "_path"
     /\ pc = "compiled" \/ (pc = "done" /\ nset = 0)) =>
        /\ Len(stoich) = Len(file) + 2
        /\ stoich[Len(file) + 1].name = "anox_storage_PP"
        /\ stoich[Len(file) + 2].name = "PAO_anox_growth"
        /\ stoich[Len(file) + 1] = MatrixRow(p12, cls, cmps.variant)
        /\ stoich[Len(file) + 2] = MatrixRow(p14, cls, cmps.variant)
        /\ \A h \in {1, 2} :
              LET t == << p12, p14 >>[h]
              IN \A i \in DOMAIN t.coef :
                    t.coef[i].kind # "unk" =>
                        stoich[Len(file) + h].stoich[PosOf(CANDO3_ids, t.comps[i])]
                            = << t.coef[i].k, t.coef[i].l >>
        /\ SubSeq(stoich, 1, Len(file)) = CompileMatrix(file, cls, cmps.variant)

\* A CANDO3 built with no path given, from a file of two rows.
C4_Witness ==
    /\ cls = "CANDO3"
    /\ pc = "done"
    /\ args.path = ""
    /\ Len(file) = 2
    /\ Len(stoich) = 4
    /\ stoich[3].name = "anox_storage_PP"

C6_MatrixFrozen ==
    [][ IsSetStep => stoich' = stoich ]_vars

\* Y_PHA has been set to a new value on a model with a row whose
\* coefficients hold multiples of Y_PHA.
C6_Witness ==
    /\ pc = "done"
    /\ nset > 0
    /\ err = ""
    /\ call = [Y_PHA |-> Rat(1, 2)]
    /\ params["Y_PHA"] # built.params["Y_PHA"]
    /\ \E i \in DOMAIN stoich :
          /\ stoich[i].sym = "Y_PHA"
          /\ \E j \in DOMAIN stoich[i].stoich : ~RIsZero(stoich[i].stoich[j][2])

\* Factors f, g of a rate law that make the Monod term S/(K + S).
IsMonod(f, g) ==
    /\ f.op = "*" /\ Bare(f)
    /\ g.op = "/" /\ Len(g.terms) = 2
    /\ g.terms[1].s = 1 /\ g.terms[1].d = "1"
    /\ g.terms[2] = f.terms[1]

\* C7: the rate of a process is 0, and its evaluation raises no error,
\* whenever a substrate S of a Monod term S/(K + S) of its rate law has
\* concentration 0 and K > 0 (here with every other concentration
\* positive); so for anox_storage_PP and PAO_anox_growth at S_O2 = 0 with
\* k_O2 > 0.
C7_ZeroRate ==
    rates # <<>> =>
        \A i \in DOMAIN procs :
            \A j \in 1..(Len(procs[i].rate) - 1) :
                LET f == procs[i].rate[j]
                    g == procs[i].rate[j + 1]
                IN (/\ IsMonod(f, g)
                    /\ Concentrations(cls, rates.conc)[f.terms[1].n] = 0
                    /\ \A n \in DOMAIN rates.conc \ {f.terms[1].n} :
                          rates.conc[n] > 0
                    /\ RPos(params[g.terms[1].n])) =>
                        rates.r[i] = RZero

\* C8: constructing a model changes no property of any component of the
\* registry it is constructed on, whatever fr_SS_COD is.
C8_RegistryUnchanged ==
    [][cmps' = cmps]_vars

\* The flags the last _run was made with.
LastRan == ran[Len(ran)]

\* C17: after every _run of qsdsan's AnaerobicBaffledReactor and
\* AnaerobicDigestion, also when if_capture_biogas was changed between runs,
\* the methane produced (COD_deg x MCF_decay x max_CH4_emission) is in the
\* biogas outlet and the fugitive CH4 outlet is empty when the flag is true,
\* and it is in the fugitive CH4 outlet and the biogas outlet is empty when
\* the flag is false.
C17_CaptureSwitch ==
    (urun = "ok" /\ ukind \in {"qABR", "qAD"}) =>
        LET CH4_prcd == RMul(RMul(COD_deg, upar.MCF_decay),
                             upar.max_CH4_emission)
        IN  IF LastRan.capture
            THEN /\ outs[2].imass["CH4"] = CH4_prcd
                 /\ outs[3].imass = EmptyMass
            ELSE /\ outs[3].imass["CH4"] = CH4_prcd
                 /\ outs[2].imass = EmptyMass

\* An AnaerobicDigestion run without capture, then with it.
C17_Witness ==
    /\ ukind = "qAD" /\ urun = "ok"
    /\ Len(ran) = 2 /\ ~ran[1].capture /\ ran[2].capture
    /\ RPos(outs[2].imass["CH4"])
    /\ outs[3].imass = EmptyMass

\* C18: after every _run of the three anaerobic units the fugitive N2O
\* outlet is empty when if_N2O_emission is false, also after an earlier run
\* made with the flag true, and it carries N2O only when the flag is true.
C18_N2OSwitch ==
    nruns > 0 =>
        LET N2O == outs[IF ukind = "sABR" THEN 3 ELSE 4]
        IN  /\ ~LastRan.N2O => N2O.imass = EmptyMass
            /\ RPos(N2O.imass["N2O"]) => LastRan.N2O

\* A sanitation AnaerobicBaffledReactor run with N2O emission, then without.
C18_Witness ==
    /\ ukind = "sABR" /\ urun = "ok"
    /\ Len(ran) = 2 /\ ran[1].N2O /\ ~ran[2].N2O
    /\ outs[3].imass = EmptyMass
    /\ RPos(waste.imass["NH3"])

\* C19: after _run of either AnaerobicBaffledReactor class, whatever
\* if_N2O_emission is, the nitrogen taken out of the treated stream (the
\* inlet's NH3 + NonNH3 less the treated stream's) is N_removal times the
\* inlet's nitrogen mass flow.
C19_NRemoved ==
    (urun = "ok" /\ ukind \in {"qABR", "sABR"}) =>
        RSub(RAdd(waste.imass["NH3"], waste.imass["NonNH3"]),
             RAdd(outs[1].imass["NH3"], outs[1].imass["NonNH3"]))
            = RMul(upar.N_removal, NMass(waste))

\* The steps of a construction, as the position moves.
CtorSteps ==
    { << "new", "refreshed" >>, << "refreshed", "loaded" >>,
      << "loaded", "extended" >>, << "extended", "compiled" >>,
      << "extended", "failed" >>, << "compiled", "done" >>,
      << "compiled", "failed" >>, << "done", "new" >>, << "failed", "new" >> }

\* C21: a construction of CANDO3 writes fr_SS_COD to X_I.i_mass, then loads
\* the file without compiling, then appends the two hand-built processes if
\* and only if the path in use is the default one, then compiles, once, then
\* calls set_parameters, once; nothing is appended after compile and
\* set_parameters is not called before compile.
C21_Order ==
    [][cls = "CANDO3" =>
        /\ pc' # pc => << pc, pc' >> \in CtorSteps
        /\ (pc = "new" /\ pc' = "refreshed") =>
               /\ cmps'.X_I_i_mass = args.fr_SS_COD
               /\ procs' = <<>> /\ stoich' = <<>> /\ call' = <<>>
        /\ (pc = "refreshed" /\ pc' # pc) =>
               /\ pc' = "loaded"
               /\ procs' # <<>>
               /\ stoich' = <<>> /\ params' = <<>> /\ call' = <<>>
        /\ (pc = "loaded" /\ pc' # pc) =>
               /\ procs' = IF path = "_path" THEN procs \o << p12, p14 >>
                            ELSE procs
               /\ stoich' = <<>> /\ call' = <<>>
        /\ (pc = "extended" /\ pc' # pc) =>
               /\ procs' = procs /\ call' = <<>>
               /\ pc' = "compiled" <=> stoich' # <<>>
        /\ (pc = "compiled" /\ pc' # pc) =>
               /\ procs' = procs /\ stoich' = stoich
               /\ call' # <<>>
        /\ (pc = "done" /\ pc' = pc) => (procs' = procs /\ stoich' = stoich)
    ]_vars

\* A second CANDO3 constructed on the default path, to its end.
C21_Witness ==
    /\ cls = "CANDO3"
    /\ pc = "done"
    /\ nbuilds = 1
    /\ path = "_path"
    /\ Len(procs) = Len(file) + 2
    /\ call # <<>>

\* C22: every keyword that CANDO() with default arguments passes to
\* set_parameters is a name of CANDO._params, so the call raises no
\* UnknownParameterError, and every name of CANDO._params receives a value.
C22_CANDOKeywords ==
    (cls = "CANDO" /\ args.Y_PHA = None /\ call # <<>> /\ nset = 0)
        => /\ DOMAIN call \subseteq CANDO_params
           /\ err # "UnknownParameterError"
           /\ CANDO_params \subseteq DOMAIN call

\* C23: every keyword that Sharon() with default arguments passes to
\* set_parameters is a name of Sharon._params, the list the model is
\* loaded with, so the call raises no UnknownParameterError.
C23_SharonKeywords ==
    (cls = "Sharon" /\ args.Y_PHA = None /\ call # <<>> /\ nset = 0)
        => /\ DOMAIN call \subseteq Sharon_params
           /\ err # "UnknownParameterError"

\* C24: every keyword that CANDO3() with default arguments passes to
\* set_parameters is a name of CANDO3._params and every name of
\* CANDO3._params receives a value from the constructor, so the call raises
\* no UnknownParameterError.
C24_CANDO3Keywords ==
    (cls = "CANDO3" /\ args.Y_PHA = None /\ call # <<>> /\ nset = 0)
        => /\ DOMAIN call \subseteq CANDO3_params
           /\ CANDO3_params \subseteq DOMAIN call
           /\ err # "UnknownParameterError"
           /\ pc = "done"
           /\ \A n \in CANDO3_params : params[n] = call[n] /\ params[n] # None

C24_Witness ==
    /\ cls = "CANDO3"
    /\ args.Y_PHA = None
    /\ pc = "done"
    /\ nset = 0
    /\ DOMAIN call = CANDO3_params
    /\ params["k_MAX"] = Rat(17, 50)

\* The names a rate law mentions.
RateSymbols(t) ==
    UNION { UNION { {t.rate[i].terms[j].n, t.rate[i].terms[j].d} \ {"1"} :
                       j \in DOMAIN t.rate[i].terms } : i \in DOMAIN t.rate }

\* The names the bracketed coefficient expression of a reaction mentions.
CoefSymbols(t) ==
    CASE t.sym = "Y_PHA" -> {"Y_PHA"}
      [] t.sym = "1/Y_PAO" -> {"Y_PAO"}
      [] t.sym = "1/Y_H" -> {"Y_H"}
      [] OTHER -> {}

\* C25: for each of the two hand-built processes of CANDO3, every symbol of
\* its rate equation or of a coefficient of its reaction that is not a
\* component of the CANDO3 registry is in the process's own parameters
\* tuple, and every component id it uses is in the registry.
C25_OwnParameters ==
    \A i \in DOMAIN procs :
       (cls = "CANDO3" /\ procs[i].name \in HandBuilt)
          => /\ (RateSymbols(procs[i]) \cup CoefSymbols(procs[i]))
                   \ SeqSet(CANDO3_ids) \subseteq procs[i].parameters
             /\ SeqSet(procs[i].comps) \subseteq SeqSet(CANDO3_ids)

\* C27: _run of qsdsan's AnaerobicBaffledReactor and AnaerobicDigestion
\* completes when the inlet's stored _COD is None or zero, and uses the
\* inlet's computed COD in its place for the degraded COD amount and for the
\* treated outlet's COD, which is inlet COD x (1 - COD_removal).
C27_UnsetCOD ==
    (nruns > 0 /\ ukind \in {"qABR", "qAD"} /\ ~Truthy(waste.COD_)) =>
        /\ urun = "ok"
        /\ COD_deg = RMul(RDiv(RMul(CompositeCOD(waste), F_vol(waste)),
                               RInt(1000)), upar.COD_removal)
        /\ COD(outs[1]) = RMul(CompositeCOD(waste),
                               RSub(ROne, upar.COD_removal))

\* ---- Properties of the other units ---------------------------------------
\* C11: after every _run of ElectroChemCell, also one that follows earlier
\* runs made with other recovery or removal dictionaries, each component's
\* mass flow summed over recovered, removed and left equals its mass flow
\* summed over the two inlets.
C11_CellBalance ==
    e_nruns > 0 =>
        \A c \in EComps :
            RAdd(RAdd(e_outs[1][c], e_outs[2][c]), e_outs[3][c])
                = mix_from(e_ins)[c]

C14_Immutable ==
    (lastop.op \in {"add", "remove"} /\ lastop.before.compiled) =>
        /\ lastop.err = "ImmutableRegistryError"
        /\ reg = lastop.before

\* An add refused on a registry a builder returned.
C14_Witness ==
    /\ lastop.op = "add" /\ lastop.id = "X_new"
    /\ lastop.before.compiled
    /\ got.how = "created"
    /\ lastop.err = "ImmutableRegistryError"

C16_MethaneFraction ==
    d_status # "none" =>
        /\ d_status = "ok"
        /\ d_methane_fraction = d_arg

\* C20: while t_slab has never been assigned, reading it gives t_wall + 2/12
\* after any assignments to t_wall; once t_slab has been assigned a non-zero
\* value, reading it gives that value whatever t_wall is.
C20_SlabThickness ==
    d_read # None =>
        IF d_slab_set
        THEN Truthy(d_t_slab) => d_read = d_t_slab
        ELSE d_read = RAdd(d_t_wall, Rat(2, 12))

\* C26: load_Sharon_cmps() with _pk falsy returns, without raising, a
\* compiled registry of S_NH, S_NO3, S_NO2, S_O, CH3OH, X_AOB, X_NOB, X_HET
\* and H2O, in that order.
C26_SharonFresh ==
    (got.cls = "Sharon" /\ got.how = "fresh" /\ lastop = NoOp) =>
        /\ got.err = ""
        /\ reg.compiled
        /\ reg.ids = << "S_NH", "S_NO3", "S_NO2", "S_O", "CH3OH", "X_AOB",
                        "X_NOB", "X_HET", "H2O" >>

\* C28: after _run of ElectroChemCell on inlets of non-negative mass flows,
\* no component of the recovered, removed or left outlet has a negative mass
\* flow, whatever recovery and removal dictionaries of fractions in [0, 1]
\* the cell holds.
C28_NonNegative ==
    e_nruns > 0 =>
        \A i \in 1..3 : \A c \in EComps : ~RLess(e_outs[i][c], RZero)

====
